---- MODULE Spec2Model ----
(***************************************************************************)
(* SimpleEQ: a three-stage equaliser (low cut, peak, high cut) with a       *)
(* response-curve display and a spectrum analyser.                         *)
(*                                                                         *)
(* The module models                                                       *)
(*   - the parameter store (apvts) and the snapshot getChainSettings takes, *)
(*   - the three filter chains (leftChain, rightChain, monoChain) as the    *)
(*     stage bypass flags, the slot bypass flags and the coefficients       *)
(*     stored in every slot,                                                *)
(*   - updateCutFilter / updateFilters / updateChain statement by           *)
(*     statement,                                                           *)
(*   - the audio thread (processBlock) and the message thread               *)
(*     (timerCallback, paint, setStateInformation, prepareToPlay).          *)
(***************************************************************************)
EXTENDS Integers, Sequences, FiniteSets, TLC

(***************************************************************************)
(* Program constants and input sets                                        *)
(***************************************************************************)

\* enum Slope { Slope_12, Slope_24, Slope_36, Slope_48 }
Slope_12 == 0
Slope_24 == 1
Slope_36 == 2
Slope_48 == 3
Slopes == {Slope_12, Slope_24, Slope_36, Slope_48}

\* The four slots of a CutFilter = ProcessorChain<Filter, Filter, Filter, Filter>
Slots == 0..3

\* enum ChainPositions { LowCut, Peak, HighCut }
ChainPositions == {"LowCut", "Peak", "HighCut"}

\* Values the parameters are driven with (each inside its declared range).
LowCutFreqs == {20, 500}
HighCutFreqs == {20000}
PeakFreqs == {750}
PeakGains == {0, 12}
PeakQualities == {1}
SampleRates == {44100, 48000}

(***************************************************************************)
(* Coefficients                                                            *)
(*                                                                         *)
(* A coefficient set is identified by the design call that produced it:    *)
(* the design method, its arguments and, for a cascade, the position of    *)
(* the biquad in the returned array.                                       *)
(***************************************************************************)

Coef(kind, freq, q, gain, order, idx, rate) ==
    [kind |-> kind, freq |-> freq, q |-> q, gain |-> gain,
     order |-> order, idx |-> idx, rate |-> rate]

\* The coefficients of a default-constructed IIR filter.
DefaultCoef == Coef("default", 0, 0, 0, 0, 0, 0)

\* What a read past the end of the designed array yields.
GarbageCoef == Coef("garbage", 0, 0, 0, 0, 0, 0)

makePeakFilter(cs, rate) ==
    Coef("peak", cs.peakFreq, cs.peakQuality, cs.peakGainInDecibels, 2, 0, rate)

\* FilterDesign<float>::designIIR{Highpass,Lowpass}HighOrderButterworthMethod
\* (freq, rate, order): one biquad per pair of poles, and a first-order
\* section before them when the order is odd.
designIIRHighOrderButterworthMethod(kind, freq, rate, order) ==
    LET sections == IF order % 2 = 1 THEN (order \div 2) + 1 ELSE order \div 2
    IN  [i \in 0..(sections - 1) |-> Coef(kind, freq, 0, 0, order, i, rate)]

\* A low-cut design that asks for order 2 * slope.
makeLowCutFilter_OrderOfSlope(cs, rate) ==
    designIIRHighOrderButterworthMethod("highpass", cs.lowCutFreq, rate,
                                        2 * cs.lowCutSlope)

\* designIIRHighpassHighOrderButterworthMethod(freq, rate, 2 * (slope + 1))
makeLowCutFilter(cs, rate) ==
    designIIRHighOrderButterworthMethod("highpass", cs.lowCutFreq, rate,
                                        2 * (cs.lowCutSlope + 1))

\* designIIRLowpassHighOrderButterworthMethod(freq, rate, 2 * (slope + 1))
makeHighCutFilter(cs, rate) ==
    designIIRHighOrderButterworthMethod("lowpass", cs.highCutFreq, rate,
                                        2 * (cs.highCutSlope + 1))

(***************************************************************************)
(* Chains                                                                  *)
(***************************************************************************)

\* A CutFilter: four slots, each with a bypass flag and coefficients.
NewCutFilter ==
    [byp |-> [i \in Slots |-> FALSE], coef |-> [i \in Slots |-> DefaultCoef]]

\* A MonoChain = ProcessorChain<CutFilter, Filter, CutFilter>.
NewMonoChain ==
    [byp |-> [p \in ChainPositions |-> FALSE],
     LowCut |-> NewCutFilter,
     Peak |-> DefaultCoef,
     HighCut |-> NewCutFilter]

\* chain.setBypassed<Index>(b) on a CutFilter
setSlotBypassed(chain, Index, b) == [chain EXCEPT !.byp[Index] = b]

\* chain.setBypassed<ChainPositions::P>(b) on a MonoChain
setBypassed(chain, pos, b) == [chain EXCEPT !.byp[pos] = b]

\* *oldCoeffs = *newCoeffs
updateCoefficients(oldCoeffs, newCoeffs) == newCoeffs

\* cutCoeff[Index]
CoeffAt(cutCoeff, Index) ==
    IF Index \in DOMAIN cutCoeff THEN cutCoeff[Index] ELSE GarbageCoef

\* A variant of update<Index> that forgets to re-enable the slot.
update_NoEnable(Index, chain, cutCoeff) ==
    [chain EXCEPT !.coef[Index] = updateCoefficients(@, CoeffAt(cutCoeff, Index))]

\* template<int Index> update(chain, cutCoeff)
update(Index, chain, cutCoeff) ==
    setSlotBypassed(
        [chain EXCEPT !.coef[Index] = updateCoefficients(@, CoeffAt(cutCoeff, Index))],
        Index, FALSE)

\* The four setBypassed<i>(true) calls that open updateCutFilter.
bypassAllSlots(chain) ==
    setSlotBypassed(setSlotBypassed(setSlotBypassed(setSlotBypassed(
        chain, 0, TRUE), 1, TRUE), 2, TRUE), 3, TRUE)

\* A switch whose cases end with a break: the case of the slope runs alone.
switchOnSlope_NoFallThrough(chain, cutCoeff, slope) ==
    IF slope \in Slopes THEN update(slope, chain, cutCoeff) ELSE chain

\* The switch of updateCutFilter: control enters at the case of the slope and
\* falls through every case below it; a value that is no enumerator matches
\* no case.
switchOnSlope(chain, cutCoeff, slope) ==
    LET entered(i) == slope \in Slopes /\ slope >= i
        c3 == IF entered(Slope_48) THEN update(3, chain, cutCoeff) ELSE chain
        c2 == IF entered(Slope_36) THEN update(2, c3, cutCoeff) ELSE c3
        c1 == IF entered(Slope_24) THEN update(1, c2, cutCoeff) ELSE c2
        c0 == IF entered(Slope_12) THEN update(0, c1, cutCoeff) ELSE c1
    IN  c0

updateCutFilter(chain, cutCoeff, slope) ==
    switchOnSlope(bypassAllSlots(chain), cutCoeff, slope)

\* The slot bypass flags that belong to slope s: 0..s active, s+1..3 bypassed.
SlotFlagsFor(s) == [i \in Slots |-> i > s]

(***************************************************************************)
(* Parameter store and snapshot                                            *)
(***************************************************************************)

ParamIDs ==
    {"LowCut Freq", "HighCut Freq", "Peak Freq", "Peak Gain", "Peak Quality",
     "LowCut Slope", "HighCut Slope",
     "LowCut Bypassed", "HighCut Bypassed", "Peak Bypassed"}

\* The raw values a parameter is driven with.
ParamValues(id) ==
    CASE id = "LowCut Freq" -> LowCutFreqs
      [] id = "HighCut Freq" -> HighCutFreqs
      [] id = "Peak Freq" -> PeakFreqs
      [] id = "Peak Gain" -> PeakGains
      [] id = "Peak Quality" -> PeakQualities
      [] id = "LowCut Slope" -> Slopes
      [] id = "HighCut Slope" -> Slopes
      [] OTHER -> {0, 1}

\* createParameterLayout: the default value of every parameter.
createParameterLayout ==
    [id \in ParamIDs |->
        CASE id = "LowCut Freq" -> 20
          [] id = "HighCut Freq" -> 20000
          [] id = "Peak Freq" -> 750
          [] id = "Peak Gain" -> 0
          [] id = "Peak Quality" -> 1
          [] OTHER -> 0]

\* raw > 0.5f, on a raw value that is a whole number
AboveHalf(raw) == 2 * raw > 1

getChainSettings(a) ==
    [lowCutFreq |-> a["LowCut Freq"],
     highCutFreq |-> a["HighCut Freq"],
     \* static_cast<Slope>(raw): the raw value of a choice parameter is its index
     lowCutSlope |-> a["LowCut Slope"],
     highCutSlope |-> a["HighCut Slope"],
     peakFreq |-> a["Peak Freq"],
     peakGainInDecibels |-> a["Peak Gain"],
     peakQuality |-> a["Peak Quality"],
     lowCutBypassed |-> AboveHalf(a["LowCut Bypassed"]),
     highCutBypassed |-> AboveHalf(a["HighCut Bypassed"]),
     peakBypassed |-> AboveHalf(a["Peak Bypassed"])]

\* The value of the local `cs` outside updateFilters / updateChain.
NoSettings == [lowCutFreq |-> 0, highCutFreq |-> 0, lowCutSlope |-> 0,
               highCutSlope |-> 0, peakFreq |-> 0, peakGainInDecibels |-> 0,
               peakQuality |-> 0, lowCutBypassed |-> FALSE,
               highCutBypassed |-> FALSE, peakBypassed |-> FALSE]

(***************************************************************************)
(* updateFilters, statement by statement, on the pair of real-time chains  *)
(***************************************************************************)

\* The number of chain-writing statements updateFilters executes.
NumUpdateSteps == 16

\* Statement k of updateFilters(cs) acting on c = [L |-> leftChain, R |-> rightChain].
UpdateStep(k, cs, rate, c) ==
    LET peakCoeff == makePeakFilter(cs, rate)
        lowCutCoeff == makeLowCutFilter(cs, rate)
        highCutCoeff == makeHighCutFilter(cs, rate)
    IN  CASE k = 1 -> [c EXCEPT !.L = setBypassed(@, "Peak", cs.peakBypassed)]
          [] k = 2 -> [c EXCEPT !.R = setBypassed(@, "Peak", cs.peakBypassed)]
          [] k = 3 -> [c EXCEPT !.L.Peak = updateCoefficients(@, peakCoeff)]
          [] k = 4 -> [c EXCEPT !.R.Peak = updateCoefficients(@, peakCoeff)]
          [] k = 5 -> [c EXCEPT !.L = setBypassed(@, "LowCut", cs.lowCutBypassed)]
          [] k = 6 -> [c EXCEPT !.R = setBypassed(@, "LowCut", cs.lowCutBypassed)]
          [] k = 7 -> [c EXCEPT !.L.LowCut = bypassAllSlots(@)]
          [] k = 8 -> [c EXCEPT !.L.LowCut = switchOnSlope(@, lowCutCoeff, cs.lowCutSlope)]
          [] k = 9 -> [c EXCEPT !.R.LowCut = bypassAllSlots(@)]
          [] k = 10 -> [c EXCEPT !.R.LowCut = switchOnSlope(@, lowCutCoeff, cs.lowCutSlope)]
          [] k = 11 -> [c EXCEPT !.L = setBypassed(@, "HighCut", cs.highCutBypassed)]
          [] k = 12 -> [c EXCEPT !.R = setBypassed(@, "HighCut", cs.highCutBypassed)]
          [] k = 13 -> [c EXCEPT !.L.HighCut = bypassAllSlots(@)]
          [] k = 14 -> [c EXCEPT !.L.HighCut = switchOnSlope(@, highCutCoeff, cs.highCutSlope)]
          [] k = 15 -> [c EXCEPT !.R.HighCut = bypassAllSlots(@)]
          [] k = 16 -> [c EXCEPT !.R.HighCut = switchOnSlope(@, highCutCoeff, cs.highCutSlope)]
          [] OTHER -> c

RECURSIVE UpdateFrom(_, _, _, _)
UpdateFrom(k, cs, rate, c) ==
    IF k > NumUpdateSteps THEN c
    ELSE UpdateFrom(k + 1, cs, rate, UpdateStep(k, cs, rate, c))

\* updatePeakFilter(cs); updateLowCutFilter(cs); updateHighCutFilter(cs)
\* run without interruption.
updateFilters(cs, rate, c) == UpdateFrom(1, cs, rate, c)

\* The updateChain of the earlier revision, which sets no stage flag.
updateChain_NoStageFlags(cs, rate, chain) ==
    LET m4 == [chain EXCEPT !.Peak = updateCoefficients(@, makePeakFilter(cs, rate))]
        m5 == [m4 EXCEPT !.LowCut =
                  updateCutFilter(@, makeLowCutFilter(cs, rate), cs.lowCutSlope)]
        m6 == [m5 EXCEPT !.HighCut =
                  updateCutFilter(@, makeHighCutFilter(cs, rate), cs.highCutSlope)]
    IN  m6

\* ResponseCurveComponent::updateChain on monoChain
updateChain(cs, rate, chain) ==
    LET m1 == setBypassed(chain, "LowCut", cs.lowCutBypassed)
        m2 == setBypassed(m1, "HighCut", cs.highCutBypassed)
        m3 == setBypassed(m2, "Peak", cs.peakBypassed)
        m4 == [m3 EXCEPT !.Peak = updateCoefficients(@, makePeakFilter(cs, rate))]
        m5 == [m4 EXCEPT !.LowCut =
                  updateCutFilter(@, makeLowCutFilter(cs, rate), cs.lowCutSlope)]
        m6 == [m5 EXCEPT !.HighCut =
                  updateCutFilter(@, makeHighCutFilter(cs, rate), cs.highCutSlope)]
    IN  m6

(***************************************************************************)
(* Ring buffer (Fifo<T>)                                                   *)
(*                                                                         *)
(* A fixed number of slots, a count of the items written and a count of    *)
(* the items read.  The producer alone advances `written`, the consumer    *)
(* alone advances `read`; both counts wrap at twice the capacity.          *)
(***************************************************************************)

\* The number of slots of a ring buffer.
FifoCapacity == 2

\* A slot nothing was copied into yet (a default-constructed T).
NoItem == <<>>

NewFifo ==
    [slots |-> [i \in 0..(FifoCapacity - 1) |-> NoItem], written |-> 0, read |-> 0]

getNumAvailableForReading(f) == (f.written - f.read) % (2 * FifoCapacity)

getFreeSpace(f) == FifoCapacity - getNumAvailableForReading(f)

\* push, first half: copy the item into the next free slot
writeSlot(f, item) == [f EXCEPT !.slots[f.written % FifoCapacity] = item]

\* push, second half: make the slot readable
finishedWrite(f) == [f EXCEPT !.written = (@ + 1) % (2 * FifoCapacity)]

\* A pull that copies the slot written last instead of the oldest unread one.
readSlot_Newest(f) == f.slots[(f.written - 1) % FifoCapacity]

\* pull, first half: copy the oldest unread slot
readSlot(f) == f.slots[f.read % FifoCapacity]

\* pull, second half: free the slot
finishedRead(f) == [f EXCEPT !.read = (@ + 1) % (2 * FifoCapacity)]

\* push(item) -> bool, run without interruption
push(f, item) ==
    IF getFreeSpace(f) > 0
    THEN [ok |-> TRUE, fifo |-> finishedWrite(writeSlot(f, item))]
    ELSE [ok |-> FALSE, fifo |-> f]

\* pull(out) -> bool, run without interruption
pull(f) ==
    IF getNumAvailableForReading(f) > 0
    THEN [ok |-> TRUE, item |-> readSlot(f), fifo |-> finishedRead(f)]
    ELSE [ok |-> FALSE, item |-> NoItem, fifo |-> f]

\* The unread items, oldest first.
Readable(f) ==
    [i \in 1..getNumAvailableForReading(f) |-> f.slots[(f.read + i - 1) % FifoCapacity]]

(***************************************************************************)
(* Samples, filters and the chain's process                                *)
(*                                                                         *)
(* A sample is a small residue.  A filter keeps the sample it saw last;    *)
(* its output is a combination of the input and that memory, fixed by its  *)
(* coefficients.  A bypassed processor still sees the sample (its memory   *)
(* follows the signal) and hands its input on as its output.               *)
(***************************************************************************)

Samples == {0, 1}

Channels == {"L", "R"}

\* The two executions compared with each other: in A the editor is open and
\* its timer drains the sample fifos, in B nothing ever drains them.
Runs == {"A", "B"}

Wrap(v) == v % Cardinality(Samples)

\* The feed-forward taps <<b0, b1>> of a coefficient set.  A peak filter of
\* 0 dB and default-constructed coefficients pass the signal through.
Taps(coef) ==
    CASE coef.kind = "peak" -> IF coef.gain = 0 THEN <<1, 0>> ELSE <<1, 1>>
      [] coef.kind = "highpass" -> <<1, 1>>
      [] coef.kind = "lowpass" -> <<1, 1>>
      [] OTHER -> <<1, 0>>

\* The memory of the nine filters of a MonoChain after prepare.
NewFilterMem ==
    [LowCut |-> [i \in Slots |-> 0], Peak |-> 0, HighCut |-> [i \in Slots |-> 0]]

\* A filter that runs its coefficients whether or not it is bypassed.
processFilter_IgnoreBypass(coef, bypassed, x, m) ==
    [out |-> Wrap(Taps(coef)[1] * x + Taps(coef)[2] * m), mem |-> x]

\* A filter that adds a constant to what its coefficients give.
processFilter_Offset(coef, bypassed, x, m) ==
    [out |-> IF bypassed THEN x ELSE Wrap(Taps(coef)[1] * x + Taps(coef)[2] * m + 1),
     mem |-> x]

\* Filter::process on one sample, with context.isBypassed = bypassed
processFilter(coef, bypassed, x, m) ==
    [out |-> IF bypassed THEN x ELSE Wrap(Taps(coef)[1] * x + Taps(coef)[2] * m),
     mem |-> x]

\* CutFilter::process on one sample: slots i..3 in order; a slot is bypassed
\* when its own flag is set or the whole stage is bypassed.
RECURSIVE processCut(_, _, _, _, _)
processCut(i, cut, stageBypassed, x, mem) ==
    IF i \notin Slots THEN [out |-> x, mem |-> mem]
    ELSE LET r == processFilter(cut.coef[i], stageBypassed \/ cut.byp[i], x, mem[i])
         IN  processCut(i + 1, cut, stageBypassed, r.out, [mem EXCEPT ![i] = r.mem])

\* MonoChain::process on one sample: LowCut, then Peak, then HighCut
processSample(chain, x, mem) ==
    LET lc == processCut(0, chain.LowCut, chain.byp["LowCut"], x, mem.LowCut)
        pk == processFilter(chain.Peak, chain.byp["Peak"], lc.out, mem.Peak)
        hc == processCut(0, chain.HighCut, chain.byp["HighCut"], pk.out, mem.HighCut)
    IN  [out |-> hc.out,
         mem |-> [LowCut |-> lc.mem, Peak |-> pk.mem, HighCut |-> hc.mem]]

\* chain.process(context) on the rest of a block, in place
RECURSIVE processChain(_, _, _, _)
processChain(chain, block, mem, done) ==
    IF block = <<>> THEN [out |-> done, mem |-> mem]
    ELSE LET r == processSample(chain, Head(block), mem)
         IN  processChain(chain, Tail(block), r.mem, Append(done, r.out))

(***************************************************************************)
(* The response curve                                                      *)
(***************************************************************************)

\* mapToLog10(i / width, 20, 20000) for the pixels of an area three wide
PixelFreqs == <<20, 200, 2000>>

\* The magnitude 1.0, in sixteenths.
UnityMag == 16

\* coefficients->getMagnitudeForFrequency(freq, sampleRate)
getMagnitudeForFrequency(coef, freq) ==
    CASE coef.kind = "peak" ->
             IF coef.gain # 0 /\ 4 * freq > coef.freq /\ freq < 4 * coef.freq
             THEN 2 * UnityMag ELSE UnityMag
      [] coef.kind = "highpass" ->
             IF freq < coef.freq THEN UnityMag \div 2 ELSE UnityMag
      [] coef.kind = "lowpass" ->
             IF freq > coef.freq THEN UnityMag \div 2 ELSE UnityMag
      [] OTHER -> UnityMag

\* mag *= m
mulMag(mag, m) == (mag * m) \div UnityMag

RECURSIVE Log2(_)
Log2(n) == IF n <= 1 THEN 0 ELSE 1 + Log2(n \div 2)

\* juce::Decibels::gainToDecibels(mag): 6 dB for every doubling, -100 for 0
gainToDecibels(mag) ==
    IF mag = 0 THEN -100 ELSE 6 * (Log2(mag) - Log2(UnityMag))

\* The four if (!cut.isBypassed<i>()) mag *= ... statements of one stage
RECURSIVE cutMagnitude(_, _, _, _)
cutMagnitude(i, cut, freq, mag) ==
    IF i \notin Slots THEN mag
    ELSE cutMagnitude(i + 1, cut, freq,
             IF ~cut.byp[i] THEN mulMag(mag, getMagnitudeForFrequency(cut.coef[i], freq))
             ELSE mag)

\* The loop body of the earlier paint, which tests only the slot flags of
\* the cut stages.
responseMagnitude_SlotsOnly(chain, freq) ==
    LET m0 == UnityMag
        m1 == IF ~chain.byp["Peak"]
              THEN mulMag(m0, getMagnitudeForFrequency(chain.Peak, freq)) ELSE m0
        m2 == cutMagnitude(0, chain.LowCut, freq, m1)
        m3 == cutMagnitude(0, chain.HighCut, freq, m2)
    IN  m3

\* The body of paint's loop for one pixel, up to gainToDecibels
responseMagnitude(chain, freq) ==
    LET m0 == UnityMag
        m1 == IF ~chain.byp["Peak"]
              THEN mulMag(m0, getMagnitudeForFrequency(chain.Peak, freq)) ELSE m0
        m2 == IF ~chain.byp["LowCut"] THEN cutMagnitude(0, chain.LowCut, freq, m1)
              ELSE m1
        m3 == IF ~chain.byp["HighCut"] THEN cutMagnitude(0, chain.HighCut, freq, m2)
              ELSE m2
    IN  m3

\* paint: mags, one value in decibels per pixel
paintMags(chain) ==
    [i \in 1..Len(PixelFreqs) |-> gainToDecibels(responseMagnitude(chain, PixelFreqs[i]))]

(***************************************************************************)
(* Sample collector and path producer                                      *)
(***************************************************************************)

\* The block size the collectors are prepared with, and the length of the
\* buffer every audio callback delivers.
samplesPerBlock == 1

\* The length of the analysis window.
fftSize == 2

\* SingleChannelSampleFifo::prepare(blockSize): a fresh accumulator of that
\* size and fresh ring storage
prepare_scsf(blockSize) ==
    [size |-> blockSize, bufferToFill |-> <<>>, audioBufferFifo |-> NewFifo]

\* SingleChannelSampleFifo after prepare(samplesPerBlock)
NewSampleFifo == prepare_scsf(samplesPerBlock)

\* A collector that pushes a full accumulator only when the next sample
\* arrives.
pushNextSampleIntoFifo_Late(scsf, x) ==
    IF Len(scsf.bufferToFill) >= scsf.size
    THEN [scsf EXCEPT !.bufferToFill = <<x>>,
                      !.audioBufferFifo = push(@, scsf.bufferToFill).fifo]
    ELSE [scsf EXCEPT !.bufferToFill = Append(@, x)]

\* One sample is appended to the accumulator; a full accumulator is pushed
\* (the result of push is ignored) and restarts from empty.
pushNextSampleIntoFifo(scsf, x) ==
    LET filled == Append(scsf.bufferToFill, x)
    IN  IF Len(filled) >= scsf.size
        THEN [scsf EXCEPT !.bufferToFill = <<>>,
                          !.audioBufferFifo = push(@, filled).fifo]
        ELSE [scsf EXCEPT !.bufferToFill = filled]

\* SingleChannelSampleFifo::update(buffer) on the samples of its channel
RECURSIVE update_scsf(_, _)
update_scsf(scsf, block) ==
    IF block = <<>> THEN scsf
    ELSE update_scsf(pushNextSampleIntoFifo(scsf, Head(block)), Tail(block))

\* The two FloatVectorOperations::copy calls of PathProducer::process: the
\* window moves left by the length of the block, the block goes to its tail.
shiftIn(monoBuffer, block) ==
    LET n == Len(monoBuffer)
        size == Len(block)
    IN  [i \in 1..n |-> IF i <= n - size THEN monoBuffer[i + size]
                        ELSE block[i - (n - size)]]

\* produceFFTDataForRendering: a magnitude-only transform of the window,
\* here its bin 0 (the sum of the samples).
RECURSIVE sumOf(_)
sumOf(q) == IF q = <<>> THEN 0 ELSE Head(q) + sumOf(Tail(q))

produceFFTDataForRendering(monoBuffer) == <<"fft", sumOf(monoBuffer)>>

\* generatePath: one path for one block of FFT data
generatePath(fftData) == <<"path", fftData[2]>>

\* A PathProducer after construction.  Its FFT-data fifo and its path fifo
\* are filled and emptied inside one call of process; fftDataFifo and
\* pathFifo stand for them during a call.
NewPathProducer ==
    [monoBuffer |-> [i \in 1..fftSize |-> 0],
     fftDataFifo |-> NewFifo,
     pathFifo |-> NewFifo,
     monoChannelFFTPath |-> <<"path">>]

\* A PathProducer between two calls of process.  A fifo that is empty is
\* written as a new one (its counts and the stale contents of its slots are
\* read by nobody before the next push); a fifo that is not empty stays as
\* it is.
emptied(f) == IF getNumAvailableForReading(f) = 0 THEN NewFifo ELSE f

retained(pp) ==
    [pp EXCEPT !.fftDataFifo = emptied(@), !.pathFifo = emptied(@)]

\* while (getNumCompleteBufferAvailable() > 0) if (getAudioBuffer(tmp)) {...}
RECURSIVE drainAudioBuffers(_, _)
drainAudioBuffers(pp, scsf) ==
    IF getNumAvailableForReading(scsf.audioBufferFifo) > 0
    THEN LET got == pull(scsf.audioBufferFifo)
             w == shiftIn(pp.monoBuffer, got.item)
         IN  drainAudioBuffers(
                 [pp EXCEPT !.monoBuffer = w,
                            !.fftDataFifo = push(@, produceFFTDataForRendering(w)).fifo],
                 [scsf EXCEPT !.audioBufferFifo = got.fifo])
    ELSE [pp |-> pp, scsf |-> scsf]

\* while (getNumAvailableFFTDataBlocks() > 0) if (getFFTData(fftData)) generatePath
RECURSIVE drainFFTData(_)
drainFFTData(pp) ==
    IF getNumAvailableForReading(pp.fftDataFifo) > 0
    THEN LET got == pull(pp.fftDataFifo)
         IN  drainFFTData([pp EXCEPT !.fftDataFifo = got.fifo,
                                     !.pathFifo = push(@, generatePath(got.item)).fifo])
    ELSE pp

\* A path loop that pulls one path only: if (getNumPathsAvailable()) ...
drainPaths_Once(pp) ==
    IF getNumAvailableForReading(pp.pathFifo) > 0
    THEN LET got == pull(pp.pathFifo)
         IN  [pp EXCEPT !.pathFifo = got.fifo, !.monoChannelFFTPath = got.item]
    ELSE pp

\* while (getNumPathsAvailable()) getPath(monoChannelFFTPath)
RECURSIVE drainPaths(_)
drainPaths(pp) ==
    IF getNumAvailableForReading(pp.pathFifo) > 0
    THEN LET got == pull(pp.pathFifo)
         IN  drainPaths([pp EXCEPT !.pathFifo = got.fifo,
                                   !.monoChannelFFTPath = got.item])
    ELSE pp

\* PathProducer::process on one channel
PathProducer_process(pp, scsf) ==
    LET d == drainAudioBuffers(pp, scsf)
    IN  [pp |-> retained(drainPaths(drainFFTData(d.pp))), scsf |-> d.scsf]

(***************************************************************************)
(* State                                                                   *)
(***************************************************************************)

VARIABLES
    apvts,              \* raw parameter values, by parameter ID
    sampleRate,         \* AudioProcessor::getSampleRate()
    leftChain,          \* SimpleEQAudioProcessor::leftChain
    rightChain,         \* SimpleEQAudioProcessor::rightChain
    monoChain,          \* ResponseCurveComponent::monoChain
    parametersChanged,  \* ResponseCurveComponent::parametersChanged
    notifyPending,      \* a parameter was stored and its listeners are not called yet
    pcA,                \* position of the audio thread inside processBlock
    csA,                \* the local cs of the audio thread's updateFilters
    usedLeft,           \* the configuration leftChain.process ran with in this callback
    pcM,                \* position of the message thread inside its current handler
    csM,                \* the local cs of the message thread's handler
    cutChain,           \* a CutFilter handed to updateCutFilter
    cutPrior,           \* its slot bypass flags before the call
    cutSlope,           \* the slope of the last call, -1 before the first
    fifo,               \* a Fifo<T> shared by one producer and one consumer
    producer,           \* the producer's position inside push, and its item
    consumer,           \* the consumer's position inside pull, and its out
    accepted,           \* the items of the pushes that returned true, in order
    delivered,          \* the items of the pulls that returned true, in order
    rejected,           \* the items of the pushes that returned false
    nextItem,           \* the number of the next item the producer offers
    returned,           \* what the last push and the last pull returned
    filterMem,          \* by run and channel: the memory of the chain's filters
    inBuf,              \* the buffer the last audio callback was handed
    outBuf,             \* by run: the buffer as the last audio callback left it
    sampleFifo,         \* by run and channel: leftChannelFifo, rightChannelFifo
    pathProducer,       \* by channel: leftPathProducer, rightPathProducer (run A)
    mags,               \* the response curve paint drew last, and the snapshot
                        \* monoChain had been built from
    tick,               \* position and locals of PathProducer::process in a tick
    preparing,          \* prepareToPlay is between its first and its last statement
    held,               \* by parameter: the raw values it held since the
                        \* getChainSettings under way was entered
    gen,                \* position and locals of generatePath: binNum and the
                        \* x coordinates of the points of p
    shouldShowFFTAnalysis   \* ResponseCurveComponent::shouldShowFFTAnalysis

chainVars == <<leftChain, rightChain, monoChain>>
audioVars == <<pcA, csA, usedLeft>>
messageVars == <<pcM, csM>>
paramVars == <<apvts, sampleRate, parametersChanged, notifyPending>>
cutVars == <<cutChain, cutPrior, cutSlope>>
fifoVars == <<fifo, producer, consumer, accepted, delivered, rejected, nextItem,
              returned>>
audioIOVars == <<filterMem, inBuf, outBuf, sampleFifo, pathProducer, mags>>
tickVars == <<tick, preparing>>
snapshotVars == <<held>>
pathVars == <<gen>>
enableVars == <<shouldShowFFTAnalysis>>
analyzerVars == <<fifoVars, audioIOVars, tickVars, snapshotVars, pathVars,
                  enableVars>>

vars == <<apvts, sampleRate, leftChain, rightChain, monoChain, parametersChanged,
          notifyPending, pcA, csA, usedLeft, pcM, csM,
          cutChain, cutPrior, cutSlope,
          fifo, producer, consumer, accepted, delivered, rejected, nextItem,
          returned, filterMem, inBuf, outBuf, sampleFifo, pathProducer, mags,
          tick, preparing, held, gen, shouldShowFFTAnalysis>>

Idle == <<"idle", 0>>

\* No configuration read yet in this callback.
NoChain == [NewMonoChain EXCEPT !.Peak = Coef("unread", 0, 0, 0, 0, 0, 0)]

\* The state once the host has prepared the processor at the given rate and the
\* editor is open: prepareToPlay ran updateFilters and the constructor of
\* ResponseCurveComponent ran updateChain, both on the default parameter values.
InitProgram(rate) ==
    LET cs == getChainSettings(createParameterLayout)
        c == updateFilters(cs, rate, [L |-> NewMonoChain, R |-> NewMonoChain])
    IN  /\ apvts = createParameterLayout
        /\ sampleRate = rate
        /\ leftChain = c.L
        /\ rightChain = c.R
        /\ monoChain = updateChain(cs, rate, NewMonoChain)
        /\ parametersChanged = FALSE
        /\ notifyPending = FALSE
        /\ pcA = Idle
        /\ csA = NoSettings
        /\ usedLeft = NoChain
        /\ pcM = Idle
        /\ csM = NoSettings

InitCutIdle ==
    /\ cutChain = NewCutFilter
    /\ cutPrior = NewCutFilter.byp
    /\ cutSlope = -1

\* A ring buffer after prepare: nothing pushed, nothing pulled.
InitFifo ==
    /\ fifo = NewFifo
    /\ producer = [pc |-> "idle", item |-> NoItem]
    /\ consumer = [pc |-> "idle", out |-> NoItem]
    /\ accepted = <<>>
    /\ delivered = <<>>
    /\ rejected = {}
    /\ nextItem = 1
    /\ returned = [push |-> "none", pull |-> "none"]

\* No audio callback yet, no tick yet, nothing painted yet.
NoBuffer == [c \in Channels |-> <<>>]

InitAudio ==
    /\ filterMem = [r \in Runs |-> [c \in Channels |-> NewFilterMem]]
    /\ inBuf = NoBuffer
    /\ outBuf = [r \in Runs |-> NoBuffer]
    /\ sampleFifo = [r \in Runs |-> [c \in Channels |-> NewSampleFifo]]
    /\ pathProducer = [c \in Channels |-> NewPathProducer]
    /\ mags = [snapshot |-> NoSettings, dB |-> <<>>]

\* No tick is inside PathProducer::process, prepareToPlay is not running.
NoTick ==
    [pc |-> "idle", ch |-> "L", tmpIncomingBuffer |-> <<>>, raced |-> FALSE,
     pulled |-> FALSE, entryPath |-> <<>>]

InitTick ==
    /\ tick = NoTick
    /\ preparing = FALSE

\* No call of getChainSettings is followed.
NoHeld == [id \in ParamIDs |-> {}]

InitSnapshot == held = NoHeld

\* generatePath is not running.
NoGen == [pc |-> "idle", binNum |-> 0, p |-> <<>>]

InitPath == gen = NoGen

\* The spectrum analysis is shown: the "Analyzer Enabled" parameter defaults
\* to true and the component follows the button that is attached to it.
InitEnable == shouldShowFFTAnalysis = TRUE

InitAnalyzerIdle ==
    InitFifo /\ InitAudio /\ InitTick /\ InitSnapshot /\ InitPath /\ InitEnable

(***************************************************************************)
(* updateCutFilter as a function: any prior slot flags, any slope          *)
(***************************************************************************)

InitCut ==
    /\ InitProgram(48000)
    /\ cutChain \in {[byp |-> b, coef |-> [i \in Slots |-> DefaultCoef]] :
                        b \in [Slots -> BOOLEAN]}
    /\ cutPrior = cutChain.byp
    /\ cutSlope = -1
    /\ InitAnalyzerIdle

CutSettings(f, s) ==
    [NoSettings EXCEPT !.lowCutFreq = f, !.lowCutSlope = s,
                       !.highCutFreq = f, !.highCutSlope = s]

\* updateCutFilter(chain, lowCutCoeff, slope) as updateLowCutFilter calls it
CutApplyLow ==
    \E s \in Slopes, f \in LowCutFreqs :
        /\ cutChain' = updateCutFilter(cutChain,
                           makeLowCutFilter(CutSettings(f, s), sampleRate), s)
        /\ cutPrior' = cutChain.byp
        /\ cutSlope' = s
        /\ UNCHANGED <<chainVars, audioVars, messageVars, paramVars, analyzerVars>>

\* updateCutFilter(chain, highCutCoeff, slope) as updateHighCutFilter calls it
CutApplyHigh ==
    \E s \in Slopes, f \in HighCutFreqs :
        /\ cutChain' = updateCutFilter(cutChain,
                           makeHighCutFilter(CutSettings(f, s), sampleRate), s)
        /\ cutPrior' = cutChain.byp
        /\ cutSlope' = s
        /\ UNCHANGED <<chainVars, audioVars, messageVars, paramVars, analyzerVars>>

NextCut == CutApplyLow \/ CutApplyHigh

SpecCut == InitCut /\ [][NextCut]_vars

\* The slots of a CutFilter that are not bypassed / bypassed.
ActiveSlots(chain) == {i \in Slots : ~chain.byp[i]}
BypassedSlots(chain) == {i \in Slots : chain.byp[i]}

\* C1: after updateCutFilter(chain, coeffs, s), whatever the slot flags were
\* before, slots 0..s are active and slots s+1..3 are bypassed: exactly s+1
\* stages are active and 3-s are bypassed.
C1_SlopeSelectsStages ==
    cutSlope \in Slopes =>
        /\ ActiveSlots(cutChain) = 0..cutSlope
        /\ BypassedSlots(cutChain) = (cutSlope + 1)..3
        /\ Cardinality(ActiveSlots(cutChain)) = cutSlope + 1
        /\ Cardinality(BypassedSlots(cutChain)) = 3 - cutSlope

\* A call with slope Slope_24 on a chain whose four slots were all active, and
\* one with Slope_48 on a chain whose four slots were all bypassed.
C1_Witness ==
    \/ /\ cutSlope = Slope_24
       /\ cutPrior = [i \in Slots |-> FALSE]
       /\ cutChain.byp = SlotFlagsFor(Slope_24)
    \/ /\ cutSlope = Slope_48
       /\ cutPrior = [i \in Slots |-> TRUE]
       /\ ActiveSlots(cutChain) = Slots

\* The orders the cut-filter factory is asked for.
CutOrders == {2, 4, 6, 8}

\* C19: for every slope s the factory is asked for order 2 * (s + 1), one of
\* 2, 4, 6, 8, and returns the s + 1 coefficient sets numbered 0..s; after
\* updateCutFilter every slot 0..s holds the set of its own number from that
\* design (no read of cutCoeff[Index] fell outside the array), and the
\* slots above s were not written.
C19_CutCoeffReadsInRange ==
    /\ [](\A s \in Slopes, f \in LowCutFreqs \cup HighCutFreqs :
            LET low == makeLowCutFilter(CutSettings(f, s), sampleRate)
                high == makeHighCutFilter(CutSettings(f, s), sampleRate)
            IN  /\ DOMAIN low = 0..s
                /\ DOMAIN high = 0..s
                /\ Cardinality(DOMAIN low) = s + 1
                /\ \A i \in 0..s : /\ low[i].order = 2 * (s + 1)
                                   /\ high[i].order = 2 * (s + 1)
                                   /\ low[i].order \in CutOrders)
    /\ [](cutSlope \in Slopes =>
            \A i \in 0..cutSlope :
                /\ cutChain.coef[i].kind \in {"highpass", "lowpass"}
                /\ cutChain.coef[i].order = 2 * (cutSlope + 1)
                /\ cutChain.coef[i].order \in CutOrders
                /\ cutChain.coef[i].idx = i)
    /\ [][\A i \in Slots :
            i > cutSlope' => cutChain'.coef[i] = cutChain.coef[i]]_vars

\* A call with Slope_48 filled the four slots from a design of order 8; a
\* later call with Slope_12 rewrote slot 0 from a design of order 2 and left
\* the other three as they were.
C19_Witness ==
    /\ cutSlope = Slope_12
    /\ cutChain.coef[0].order = 2
    /\ \A i \in 1..3 : cutChain.coef[i].order = 8 /\ cutChain.coef[i].idx = i

(***************************************************************************)
(* The audio thread: processBlock                                          *)
(***************************************************************************)

RealTimeChains == [L |-> leftChain, R |-> rightChain]

\* processBlock entry up to the first statement of updateFilters:
\* auto cs = getChainSettings(apvts)
AudioGetChainSettings ==
    /\ pcA = Idle
    /\ csA' = getChainSettings(apvts)
    /\ pcA' = <<"updateFilters", 1>>
    /\ UNCHANGED <<usedLeft, chainVars, messageVars, paramVars, cutVars, analyzerVars>>

\* The next chain-writing statement of the audio thread's updateFilters.
AudioUpdateStep ==
    /\ pcA[1] = "updateFilters"
    /\ LET c == UpdateStep(pcA[2], csA, sampleRate, RealTimeChains)
       IN  /\ leftChain' = c.L
           /\ rightChain' = c.R
    /\ pcA' = IF pcA[2] < NumUpdateSteps
              THEN <<"updateFilters", pcA[2] + 1>>
              ELSE <<"process", 0>>
    /\ UNCHANGED <<csA, usedLeft, monoChain, messageVars, paramVars, cutVars, analyzerVars>>

\* leftChain.process(leftContext)
AudioProcessLeft ==
    /\ pcA = <<"process", 0>>
    /\ usedLeft' = leftChain
    /\ pcA' = <<"process", 1>>
    /\ UNCHANGED <<csA, chainVars, messageVars, paramVars, cutVars, analyzerVars>>

\* rightChain.process(rightContext): the block's right channel is filtered with
\* rightChain as it is now.
AudioProcessRight ==
    /\ pcA = <<"process", 1>>
    /\ pcA' = <<"return", 0>>
    /\ UNCHANGED <<csA, usedLeft, chainVars, messageVars, paramVars, cutVars, analyzerVars>>

\* leftChannelFifo.update(buffer); rightChannelFifo.update(buffer); return
AudioReturn ==
    /\ pcA = <<"return", 0>>
    /\ pcA' = Idle
    /\ csA' = NoSettings
    /\ usedLeft' = NoChain
    /\ UNCHANGED <<chainVars, messageVars, paramVars, cutVars, analyzerVars>>

(***************************************************************************)
(* The message thread: setStateInformation, prepareToPlay                  *)
(***************************************************************************)

\* What ValueTree::readFromData yields for data that is no tree.
InvalidTree == [id \in ParamIDs |-> -1]

isValid(tree) == tree # InvalidTree

\* The stored states setStateInformation is called with.
StateTrees ==
    {createParameterLayout,
     [createParameterLayout EXCEPT !["LowCut Slope"] = Slope_36,
                                   !["Peak Bypassed"] = 1]}

\* auto tree = readFromData(...); if (tree.isValid()) apvts.replaceState(tree);
\* replaceState stores every parameter of the tree and calls the listeners of
\* those that changed before it returns.
SetStateReplace ==
    \E tree \in StateTrees \cup {InvalidTree} :
        /\ pcM = Idle
        /\ IF isValid(tree)
           THEN /\ apvts' = tree
                /\ parametersChanged' = (parametersChanged \/ tree # apvts)
                /\ pcM' = <<"getChainSettings", 0>>
           ELSE UNCHANGED <<apvts, parametersChanged, pcM>>
        /\ UNCHANGED <<csM, sampleRate, notifyPending, chainVars, audioVars, cutVars, analyzerVars>>

\* updateFilters(): auto cs = getChainSettings(apvts)
SetStateGetChainSettings ==
    /\ pcM = <<"getChainSettings", 0>>
    /\ csM' = getChainSettings(apvts)
    /\ pcM' = <<"updateFilters", 1>>
    /\ UNCHANGED <<chainVars, audioVars, paramVars, cutVars, analyzerVars>>

\* The next chain-writing statement of the message thread's updateFilters.
SetStateUpdateStep ==
    /\ pcM[1] = "updateFilters"
    /\ LET c == UpdateStep(pcM[2], csM, sampleRate, RealTimeChains)
       IN  /\ leftChain' = c.L
           /\ rightChain' = c.R
    /\ IF pcM[2] < NumUpdateSteps
       THEN /\ pcM' = <<"updateFilters", pcM[2] + 1>>
            /\ csM' = csM
       ELSE /\ pcM' = Idle
            /\ csM' = NoSettings
    /\ UNCHANGED <<monoChain, audioVars, paramVars, cutVars, analyzerVars>>

\* prepareToPlay(sampleRate, samplesPerBlock): the host calls it while no
\* audio callback is running.  Both chains are prepared (their filters'
\* memory is reset), updateFilters runs, both sample fifos are prepared.
PrepareToPlay ==
    \E rate \in SampleRates :
        /\ pcA = Idle
        /\ pcM = Idle
        /\ sampleRate' = rate
        /\ LET c == updateFilters(getChainSettings(apvts), rate, RealTimeChains)
           IN  /\ leftChain' = c.L
               /\ rightChain' = c.R
        /\ filterMem' = [r \in Runs |-> [c \in Channels |-> NewFilterMem]]
        /\ sampleFifo' = [r \in Runs |-> [c \in Channels |-> NewSampleFifo]]
        /\ UNCHANGED <<apvts, parametersChanged, notifyPending, monoChain,
                       audioVars, messageVars, cutVars, fifoVars, tickVars,
                       held, gen, shouldShowFFTAnalysis, inBuf, outBuf,
                       pathProducer, mags>>

Init ==
    /\ \E rate \in SampleRates : InitProgram(rate)
    /\ InitCutIdle
    /\ InitAnalyzerIdle

Next ==
    \/ AudioGetChainSettings
    \/ AudioUpdateStep
    \/ AudioProcessLeft
    \/ AudioProcessRight
    \/ AudioReturn
    \/ SetStateReplace
    \/ SetStateGetChainSettings
    \/ SetStateUpdateStep
    \/ PrepareToPlay

Spec == Init /\ [][Next]_vars

\* The slot flags of a cut sub-chain belong to some slope.
SlopeConsistent(cut) == \E s \in Slopes : cut.byp = SlotFlagsFor(s)

\* C2 (as claimed): whenever a chain is read - leftChain and rightChain by
\* process on the audio thread, monoChain by paint on the message thread - the
\* slot flags of both cut sub-chains are those of a slope (slots 0..s active,
\* s+1..3 bypassed); the state with all four slots bypassed is never read.
C2_ReadersSeeSlopeFlags ==
    /\ pcA = <<"process", 0>> =>
           SlopeConsistent(leftChain.LowCut) /\ SlopeConsistent(leftChain.HighCut)
    /\ pcA = <<"process", 1>> =>
           SlopeConsistent(rightChain.LowCut) /\ SlopeConsistent(rightChain.HighCut)
    /\ pcM = Idle =>
           SlopeConsistent(monoChain.LowCut) /\ SlopeConsistent(monoChain.HighCut)

\* C3 (as claimed): when the audio thread has completed updateFilters and is
\* about to process the block (and no other updateFilters is under way),
\* leftChain and rightChain hold the same stage flags, slot flags and
\* coefficients.
C3_ChannelsMatch ==
    (pcA = <<"process", 0>> /\ pcM = Idle) => leftChain = rightChain

(***************************************************************************)
(* Parameter changes, their notification and the UI timer                  *)
(*                                                                         *)
(* SpecUI follows a parameter change from the store to the listener        *)
(* (parameterValueChanged), to the timer tick's compare-and-set and to     *)
(* updateChain.  monoChain and parametersChanged are touched by no         *)
(* statement of processBlock or setStateInformation's updateFilters, so    *)
(* both run here as one step each; their statement-level interleaving is    *)
(* the subject of Spec.                                                    *)
(***************************************************************************)

\* The parameter changes the host or a slider makes: <<parameter ID, raw value>>.
HostParamChanges ==
    {<<"LowCut Slope", s>> : s \in {Slope_12, Slope_36}} \cup
    {<<"Peak Bypassed", b>> : b \in {0, 1}}

\* A parameter is given a new value; its listeners are called next, on the
\* thread that made the change.
storeParameter(changes) ==
    \E ch \in changes :
        /\ ~notifyPending
        /\ apvts[ch[1]] # ch[2]
        /\ apvts' = [apvts EXCEPT ![ch[1]] = ch[2]]
        /\ notifyPending' = TRUE
        /\ UNCHANGED <<sampleRate, parametersChanged, chainVars, audioVars,
                       messageVars, cutVars, analyzerVars>>

SetParameter == storeParameter(HostParamChanges)

\* A listener that recomputes the analysis chain inside the notification.
parameterValueChanged_Inline ==
    /\ notifyPending
    /\ notifyPending' = FALSE
    /\ parametersChanged' = TRUE
    /\ monoChain' = updateChain(getChainSettings(apvts), sampleRate, monoChain)
    /\ UNCHANGED <<apvts, sampleRate, leftChain, rightChain, audioVars,
                   messageVars, cutVars, analyzerVars>>

\* ResponseCurveComponent::parameterValueChanged: parametersChanged.set(true)
parameterValueChanged ==
    /\ notifyPending
    /\ notifyPending' = FALSE
    /\ parametersChanged' = TRUE
    /\ UNCHANGED <<apvts, sampleRate, chainVars, audioVars, messageVars, cutVars, analyzerVars>>

\* leftPathProducer.process(...); rightPathProducer.process(...) of run A
pathProducersProcess ==
    \E done \in {[ch \in Channels |->
                      PathProducer_process(pathProducer[ch], sampleFifo["A"][ch])]} :
        /\ pathProducer' = [ch \in Channels |-> done[ch].pp]
        /\ sampleFifo' = [sampleFifo EXCEPT
               !["A"] = [ch \in Channels |-> done[ch].scsf]]

\* A tick that clears the flag and forgets to rebuild the chain.
timerCallback_NoRebuild ==
    /\ pcM = Idle
    /\ parametersChanged' = FALSE
    /\ pathProducersProcess
    /\ UNCHANGED <<pcM, csM, apvts, sampleRate, notifyPending, chainVars,
                   audioVars, cutVars, fifoVars, tickVars,
                   held, gen, shouldShowFFTAnalysis, filterMem, inBuf, outBuf, mags>>

\* ResponseCurveComponent::timerCallback up to the test of
\* parametersChanged.compareAndSetBool(false, true): both path producers
\* process (on the message thread, which owns them); the flag is compared
\* with true and set to false in one atomic step; updateChain follows when
\* the comparison succeeded, repaint() and the return otherwise.
timerCallback ==
    /\ pcM = Idle
    /\ IF parametersChanged
       THEN /\ parametersChanged' = FALSE
            /\ pcM' = <<"updateChain", 0>>
       ELSE UNCHANGED <<parametersChanged, pcM>>
    /\ pathProducersProcess
    /\ UNCHANGED <<csM, apvts, sampleRate, notifyPending, chainVars, audioVars,
                   cutVars, fifoVars, tickVars,
                   held, gen, shouldShowFFTAnalysis, filterMem, inBuf, outBuf, mags>>

\* updateChain(); repaint(); return
timerUpdateChain ==
    /\ pcM = <<"updateChain", 0>>
    /\ monoChain' = updateChain(getChainSettings(apvts), sampleRate, monoChain)
    /\ pcM' = Idle
    /\ UNCHANGED <<csM, leftChain, rightChain, paramVars, audioVars, cutVars, analyzerVars>>

\* setStateInformation, run without interruption.
setStateInformation ==
    \E tree \in StateTrees \cup {InvalidTree} :
        /\ pcM = Idle
        /\ pcA = Idle
        /\ IF isValid(tree)
           THEN /\ apvts' = tree
                /\ parametersChanged' = (parametersChanged \/ tree # apvts)
                /\ LET c == updateFilters(getChainSettings(tree), sampleRate,
                                          RealTimeChains)
                   IN  /\ leftChain' = c.L
                       /\ rightChain' = c.R
           ELSE UNCHANGED <<apvts, parametersChanged, leftChain, rightChain>>
        /\ UNCHANGED <<sampleRate, notifyPending, monoChain, audioVars,
                       messageVars, cutVars, analyzerVars>>

NextUI ==
    \/ SetParameter
    \/ parameterValueChanged
    \/ timerCallback
    \/ timerUpdateChain
    \/ setStateInformation
    \/ PrepareToPlay

SpecUI == Init /\ [][NextUI]_vars

\* What a chain does to a signal and to the response curve: the stage flags,
\* the slot flags and the coefficients of the slots that are not bypassed.
Effective(chain) ==
    LET cut(c) == [byp |-> c.byp,
                   coef |-> [i \in Slots |-> IF c.byp[i] THEN DefaultCoef
                                             ELSE c.coef[i]]]
    IN  [chain EXCEPT !.LowCut = cut(@), !.HighCut = cut(@)]

\* The analysis chain is the one derived from the current parameter values.
MonoChainCurrent ==
    \E rate \in SampleRates :
        Effective(monoChain) =
            Effective(updateChain(getChainSettings(apvts), rate, NewMonoChain))

\* C6: the step in which the listeners of a stored parameter are called
\* (parameterValueChanged) sets parametersChanged and changes nothing else:
\* the parameter values, monoChain, leftChain, rightChain, the filter memory,
\* the sample fifos, the path producers with their retained paths and every
\* other ring buffer are as before, and no other handler has moved.
C6_NotificationOnlySetsFlag ==
    [][(notifyPending /\ ~notifyPending') =>
           /\ parametersChanged'
           /\ UNCHANGED <<apvts, sampleRate, chainVars, audioVars, messageVars,
                          cutVars, analyzerVars>>]_vars

\* A notification has just been delivered while run A's sample fifo holds a
\* block, a spectrum path is retained from an earlier tick and the analysis
\* chain still shows the old peak gain: the flag is set, nothing was
\* recomputed, nothing was drained.
C6_Witness ==
    /\ parametersChanged
    /\ ~notifyPending
    /\ apvts["Peak Gain"] = 12
    /\ monoChain.Peak.gain = 0
    /\ leftChain.Peak.gain = 0
    /\ getNumAvailableForReading(sampleFifo["A"]["L"].audioBufferFifo) = 1
    /\ pathProducer["L"].monoChannelFFTPath # NewPathProducer.monoChannelFFTPath

\* C7: a tick goes on to updateChain exactly when parametersChanged was true
\* at its compare-and-set, and that step leaves the flag false; updateChain
\* reads the parameter values as they are when it runs, after the clear; and
\* whenever no tick is under way, no notification is outstanding and the flag
\* is false, monoChain is the chain derived from the current parameter
\* values, so a tick that finds the flag false has nothing to rebuild and a
\* change notified during a tick is picked up by that tick or flags the next.
C7_TickRebuildsIffFlagged ==
    /\ []((pcM = Idle /\ ~notifyPending /\ ~parametersChanged) => MonoChainCurrent)
    /\ [][(pcM = Idle /\ pcM' = <<"updateChain", 0>>) =>
              (parametersChanged /\ ~parametersChanged')]_vars
    /\ [][(parametersChanged /\ ~parametersChanged') =>
              (pcM = Idle /\ pcM' = <<"updateChain", 0>>)]_vars
    /\ [][(pcM = <<"updateChain", 0>> /\ pcM' = Idle) =>
              monoChain' = updateChain(getChainSettings(apvts), sampleRate,
                                       monoChain)]_vars
    /\ [][monoChain' # monoChain => pcM = <<"updateChain", 0>>]_vars

\* A tick has rebuilt the analysis chain for a slope other than the default
\* while a further change was notified during the tick: the chain is current
\* and the flag is set again for the next tick.
C7_Witness ==
    /\ pcM = Idle
    /\ ~notifyPending
    /\ parametersChanged
    /\ apvts["LowCut Slope"] = Slope_36
    /\ apvts["Peak Bypassed"] = 1
    /\ monoChain.LowCut.byp = SlotFlagsFor(Slope_36)
    /\ monoChain.byp["Peak"]
    /\ MonoChainCurrent

(***************************************************************************)
(* One producer and one consumer on a ring buffer                          *)
(*                                                                         *)
(* SpecFifo runs push on the producer thread and pull on the consumer      *)
(* thread, each in its steps (test, copy, publish / release), interleaved  *)
(* in every order.  The producer offers the items <<1>>, <<2>>, ...        *)
(***************************************************************************)

\* The number of items the producer offers.
MaxItems == 6

notFifoVars == <<chainVars, audioVars, messageVars, paramVars, cutVars,
                 audioIOVars, tickVars, held, gen, shouldShowFFTAnalysis>>

\* A push that copies into the next slot whether or not one is free.
PushBegin_Overwrite ==
    /\ producer.pc = "idle"
    /\ nextItem <= MaxItems
    /\ nextItem' = nextItem + 1
    /\ producer' = [pc |-> "copy", item |-> <<nextItem>>]
    /\ UNCHANGED <<fifo, consumer, accepted, delivered, rejected, returned,
                   notFifoVars>>

\* push(item): if no slot is free return false, else go on to copy the item
PushBegin ==
    /\ producer.pc = "idle"
    /\ nextItem <= MaxItems
    /\ nextItem' = nextItem + 1
    /\ IF getFreeSpace(fifo) > 0
       THEN /\ producer' = [pc |-> "copy", item |-> <<nextItem>>]
            /\ UNCHANGED <<rejected, returned>>
       ELSE /\ rejected' = rejected \cup {<<nextItem>>}
            /\ returned' = [returned EXCEPT !.push = "false"]
            /\ UNCHANGED producer
    /\ UNCHANGED <<fifo, consumer, accepted, delivered, notFifoVars>>

\* push(item): the item is copied into the next free slot
PushCopy ==
    /\ producer.pc = "copy"
    /\ fifo' = writeSlot(fifo, producer.item)
    /\ producer' = [producer EXCEPT !.pc = "publish"]
    /\ UNCHANGED <<consumer, accepted, delivered, rejected, nextItem, returned,
                   notFifoVars>>

\* push(item): the slot becomes readable; return true
PushPublish ==
    /\ producer.pc = "publish"
    /\ fifo' = finishedWrite(fifo)
    /\ accepted' = Append(accepted, producer.item)
    /\ producer' = [pc |-> "idle", item |-> NoItem]
    /\ returned' = [returned EXCEPT !.push = "true"]
    /\ UNCHANGED <<consumer, delivered, rejected, nextItem, notFifoVars>>

\* pull(out): if nothing is readable return false, else go on to copy
PullBegin ==
    /\ consumer.pc = "idle"
    /\ IF getNumAvailableForReading(fifo) > 0
       THEN /\ consumer' = [consumer EXCEPT !.pc = "copy"]
            /\ UNCHANGED returned
       ELSE /\ returned' = [returned EXCEPT !.pull = "false"]
            /\ UNCHANGED consumer
    /\ UNCHANGED <<fifo, producer, accepted, delivered, rejected, nextItem,
                   notFifoVars>>

\* pull(out): the oldest unread slot is copied into out
PullCopy ==
    /\ consumer.pc = "copy"
    /\ consumer' = [pc |-> "release", out |-> readSlot(fifo)]
    /\ UNCHANGED <<fifo, producer, accepted, delivered, rejected, nextItem,
                   returned, notFifoVars>>

\* pull(out): the slot is freed; return true
PullRelease ==
    /\ consumer.pc = "release"
    /\ fifo' = finishedRead(fifo)
    /\ delivered' = Append(delivered, consumer.out)
    /\ consumer' = [consumer EXCEPT !.pc = "idle"]
    /\ returned' = [returned EXCEPT !.pull = "true"]
    /\ UNCHANGED <<producer, accepted, rejected, nextItem, notFifoVars>>

InitFifoProgram == InitProgram(48000) /\ InitCutIdle /\ InitAnalyzerIdle

NextFifo ==
    \/ PushBegin
    \/ PushCopy
    \/ PushPublish
    \/ PullBegin
    \/ PullCopy
    \/ PullRelease

SpecFifo == InitFifoProgram /\ [][NextFifo]_vars

\* C4: the number of readable items is always within 0..capacity; a push
\* that finds the buffer full returns false in that one step and leaves the
\* slots, the readable count and the items still to be read as they were; a
\* pull that finds the buffer empty returns false and leaves the buffer as it
\* was.
C4_NeverOverCommits ==
    /\ [](getNumAvailableForReading(fifo) \in 0..FifoCapacity)
    /\ [][rejected' # rejected =>
              /\ getFreeSpace(fifo) = 0
              /\ returned'.push = "false"
              /\ fifo' = fifo
              /\ Readable(fifo') = Readable(fifo)
              /\ producer'.pc = "idle"
              /\ UNCHANGED <<accepted, delivered>>]_vars
    /\ [][(returned.pull # "false" /\ returned'.pull = "false") =>
              /\ getNumAvailableForReading(fifo) = 0
              /\ fifo' = fifo
              /\ consumer'.pc = "idle"
              /\ UNCHANGED <<accepted, delivered>>]_vars

\* A push was refused on a full buffer whose two unread items are still in
\* place, after an earlier pull had found the buffer empty.
C4_Witness ==
    /\ rejected # {}
    /\ returned.push = "false"
    /\ returned.pull = "false"
    /\ getNumAvailableForReading(fifo) = FifoCapacity
    /\ Readable(fifo) = accepted

\* C5: with the producer and the consumer interleaved in every order, the
\* items the successful pulls returned are the items the successful pushes
\* accepted, in push order and without gap or repetition; the unread items
\* are the accepted items not yet returned; an item whose push returned
\* false is never returned.
C5_FifoOrder ==
    /\ Len(delivered) <= Len(accepted)
    /\ delivered = SubSeq(accepted, 1, Len(delivered))
    /\ Readable(fifo) = SubSeq(accepted, Len(delivered) + 1, Len(accepted))
    /\ \A i \in 1..Len(delivered) : delivered[i] \notin rejected
    /\ \A i, j \in 1..Len(delivered) : delivered[i] = delivered[j] => i = j
    /\ consumer.pc = "release" => consumer.out = accepted[Len(delivered) + 1]

\* Four items went through a buffer of fewer slots, so the slots were reused,
\* one push in between was refused, and the producer is in the middle of a
\* push while the consumer is in the middle of a pull.
C5_Witness ==
    /\ Len(delivered) > FifoCapacity
    /\ rejected # {}
    /\ delivered = SubSeq(accepted, 1, Len(delivered))
    /\ producer.pc = "publish"
    /\ consumer.pc = "release"

(***************************************************************************)
(* Audio callbacks on samples, the timer tick on the sample fifos, paint   *)
(*                                                                         *)
(* SpecAudio feeds the same buffers and the same parameter changes to two  *)
(* runs of the processor.  Run A has its editor open: the timer tick       *)
(* drains its sample fifos and rebuilds monoChain when flagged, the        *)
(* analysis chain.  Run B is never drained, so its fifos fill up and stay  *)
(* full.  Every handler runs without interruption here; the interleaving   *)
(* of handlers on the chains is the subject of Spec.                       *)
(***************************************************************************)

\* The buffers an audio callback is handed: samplesPerBlock samples a channel.
\* Both channels carry the same signal.
InputBuffers ==
    {[c \in Channels |-> block] : block \in [1..samplesPerBlock -> Samples]}

\* The parameter changes the host makes between callbacks: the peak gain is
\* raised from its default.
AudioParamChanges == {<<"Peak Gain", g>> : g \in PeakGains \ {0}}

\* The host raises the peak gain; parameterValueChanged follows.
SetParameterAudio == storeParameter(AudioParamChanges)

\* A callback that leaves the buffer unfiltered when the sample fifo is full.
processBlockRun_SkipWhenFull(r, buffer, c) ==
    IF getFreeSpace(sampleFifo[r]["L"].audioBufferFifo) = 0
    THEN [out |-> buffer, mem |-> filterMem[r], fifo |-> sampleFifo[r]]
    ELSE LET done == [ch \in Channels |->
                         processChain(IF ch = "L" THEN c.L ELSE c.R, buffer[ch],
                                      filterMem[r][ch], <<>>)]
         IN  [out |-> [ch \in Channels |-> done[ch].out],
              mem |-> [ch \in Channels |-> done[ch].mem],
              fifo |-> [ch \in Channels |->
                           update_scsf(sampleFifo[r][ch], done[ch].out)]]

\* A callback that hands the collectors the buffer as it was received.
processBlockRun_RawToFifo(r, buffer, c) ==
    LET done == [ch \in Channels |->
                    processChain(IF ch = "L" THEN c.L ELSE c.R, buffer[ch],
                                 filterMem[r][ch], <<>>)]
    IN  [out |-> [ch \in Channels |-> done[ch].out],
         mem |-> [ch \in Channels |-> done[ch].mem],
         fifo |-> [ch \in Channels |-> update_scsf(sampleFifo[r][ch], buffer[ch])]]

\* processBlock after updateFilters, in run r: leftChain.process,
\* rightChain.process, leftChannelFifo.update(buffer),
\* rightChannelFifo.update(buffer), with c the chains as updated.
processBlockRun(r, buffer, c) ==
    LET done == [ch \in Channels |->
                    processChain(IF ch = "L" THEN c.L ELSE c.R, buffer[ch],
                                 filterMem[r][ch], <<>>)]
    IN  [out |-> [ch \in Channels |-> done[ch].out],
         mem |-> [ch \in Channels |-> done[ch].mem],
         fifo |-> [ch \in Channels |-> update_scsf(sampleFifo[r][ch], done[ch].out)]]

\* An audio callback that recomputes the chains only when the changed flag
\* is set, and resets it.
processBlockAudio_Flagged ==
    \E c \in {IF parametersChanged
               THEN updateFilters(getChainSettings(apvts), sampleRate, RealTimeChains)
               ELSE RealTimeChains} :
        \E buffer \in InputBuffers :
        \E done \in {[r \in Runs |-> processBlockRun(r, buffer, c)]} :
            /\ pcA = Idle
            /\ csA' = IF parametersChanged THEN getChainSettings(apvts) ELSE csA
            /\ parametersChanged' = FALSE
            /\ leftChain' = c.L
            /\ rightChain' = c.R
            /\ inBuf' = buffer
            /\ outBuf' = [r \in Runs |-> done[r].out]
            /\ filterMem' = [r \in Runs |-> done[r].mem]
            /\ sampleFifo' = [r \in Runs |-> done[r].fifo]
            /\ UNCHANGED <<pcA, usedLeft, monoChain, apvts, sampleRate,
                           notifyPending, messageVars, cutVars, fifoVars, tickVars,
                           held, gen, shouldShowFFTAnalysis,
                           pathProducer, mags>>

\* processBlock(buffer, midiMessages), run without interruption, in both runs
processBlockAudio ==
    \E c \in {updateFilters(getChainSettings(apvts), sampleRate, RealTimeChains)} :
        \E buffer \in InputBuffers :
        \E done \in {[r \in Runs |-> processBlockRun(r, buffer, c)]} :
            /\ pcA = Idle
            /\ csA' = getChainSettings(apvts)
            /\ leftChain' = c.L
            /\ rightChain' = c.R
            /\ inBuf' = buffer
            /\ outBuf' = [r \in Runs |-> done[r].out]
            /\ filterMem' = [r \in Runs |-> done[r].mem]
            /\ sampleFifo' = [r \in Runs |-> done[r].fifo]
            /\ UNCHANGED <<pcA, usedLeft, monoChain, paramVars, messageVars,
                           cutVars, fifoVars, tickVars,
                           held, gen, shouldShowFFTAnalysis, pathProducer, mags>>

\* timerCallback of run A, run without interruption: both path producers
\* process, then the compare-and-set and, if it succeeded, updateChain.
timerTick ==
    LET cs == getChainSettings(apvts)
    IN  /\ pcM = Idle
        /\ pathProducersProcess
        /\ IF parametersChanged
           THEN /\ parametersChanged' = FALSE
                /\ monoChain' = updateChain(cs, sampleRate, monoChain)
                /\ csM' = cs
           ELSE UNCHANGED <<parametersChanged, monoChain, csM>>
        /\ UNCHANGED <<pcM, apvts, sampleRate, notifyPending, leftChain, rightChain,
                       audioVars, cutVars, fifoVars, tickVars,
                       held, gen, shouldShowFFTAnalysis, filterMem, inBuf, outBuf, mags>>

InitAudioProgram == InitProgram(48000) /\ InitCutIdle /\ InitAnalyzerIdle

NextAudio ==
    \/ SetParameterAudio
    \/ parameterValueChanged
    \/ processBlockAudio
    \/ timerTick

SpecAudio == InitAudioProgram /\ [][NextAudio]_vars

\* The real-time chains are the ones derived from the current parameter values.
RealTimeChainsCurrent ==
    LET c == updateFilters(getChainSettings(apvts), sampleRate, RealTimeChains)
    IN  leftChain = c.L /\ rightChain = c.R

\* C8 (as claimed): the audio callback recomputes the real-time chains only
\* when a changed flag is set, and resets that flag.
C8_AudioConsumesFlag ==
    [][(processBlockAudio /\ <<leftChain, rightChain>>' # <<leftChain, rightChain>>) =>
           (parametersChanged /\ ~parametersChanged')]_vars

\* C8 (amended): the audio callback has no changed flag: every processBlock
\* recomputes both real-time chains from a fresh snapshot, whether or not
\* parametersChanged is set, and leaves parametersChanged and monoChain as
\* they are; parametersChanged is reset only by the tick's compare-and-set,
\* which leaves the real-time chains as they are.
C8_AudioRecomputesAlways ==
    /\ [][processBlockAudio =>
              /\ RealTimeChainsCurrent'
              /\ UNCHANGED <<parametersChanged, monoChain, apvts>>]_vars
    /\ [][(parametersChanged /\ ~parametersChanged') =>
              /\ timerTick
              /\ UNCHANGED <<leftChain, rightChain, filterMem, outBuf>>]_vars

\* An audio callback has brought the real-time chains up to date with the
\* raised peak gain and filtered a buffer while parametersChanged is still
\* set and the analysis chain still holds the old gain.
C8_Witness ==
    /\ parametersChanged
    /\ ~notifyPending
    /\ apvts["Peak Gain"] = 12
    /\ leftChain.Peak.gain = 12
    /\ rightChain.Peak.gain = 12
    /\ RealTimeChainsCurrent
    /\ csA = getChainSettings(apvts)
    /\ inBuf # NoBuffer
    /\ monoChain.Peak.gain = 0

\* C10: in every callback the two runs, which differ only in the state of
\* their sample fifos and in whether a tick drains them, write the same
\* samples to the output buffer and leave the same filter memory.
C10_OutputIndependentOfFifo ==
    /\ outBuf["A"] = outBuf["B"]
    /\ filterMem["A"] = filterMem["B"]

\* Run A's fifo was drained by a tick and holds one block again, run B's
\* is full, and the callback has filtered the buffer (output differs from
\* input).
C10_Witness ==
    /\ getNumAvailableForReading(sampleFifo["A"]["L"].audioBufferFifo) = 1
    /\ getFreeSpace(sampleFifo["B"]["L"].audioBufferFifo) = 0
    /\ pathProducer["L"].monoChannelFFTPath # NewPathProducer.monoChannelFFTPath
    /\ outBuf["A"]["L"] # inBuf["L"]
    /\ outBuf["B"]["L"] # inBuf["L"]

(***************************************************************************)
(* Bypassed stages: updateChain + paint and updateFilters + process as     *)
(* functions of the snapshot, for any prior state of the chains            *)
(***************************************************************************)

\* The parameter states the snapshots are taken from: no stage, the peak
\* stage or all three stages bypassed, with two slopes and two peak gains.
BypassTrees ==
    {[createParameterLayout EXCEPT
          !["LowCut Bypassed"] = b[1], !["Peak Bypassed"] = b[2],
          !["HighCut Bypassed"] = b[3], !["LowCut Freq"] = 500,
          !["LowCut Slope"] = s, !["HighCut Slope"] = s, !["Peak Gain"] = g] :
        b \in {<<0, 0, 0>>, <<0, 1, 0>>, <<1, 1, 1>>},
        s \in {Slope_12, Slope_36},
        g \in PeakGains}

\* For one snapshot and one buffer: updateChain and the loop of paint on
\* monoChain; updateFilters, leftChain.process and rightChain.process on the
\* real-time chains.
BypassApply ==
    \E tree \in BypassTrees :
        \E cs \in {getChainSettings(tree)} :
        \E c \in {updateFilters(cs, sampleRate, RealTimeChains)} :
        \E m \in {updateChain(cs, sampleRate, monoChain)} :
        \E buffer \in InputBuffers :
        \E done \in {[r \in Runs |-> processBlockRun(r, buffer, c)]} :
            /\ monoChain' = m
            /\ csM' = cs
            /\ mags' = [snapshot |-> cs, dB |-> paintMags(m)]
            /\ leftChain' = c.L
            /\ rightChain' = c.R
            /\ csA' = cs
            /\ inBuf' = buffer
            /\ outBuf' = [r \in Runs |-> done[r].out]
            /\ filterMem' = [r \in Runs |-> done[r].mem]
            /\ UNCHANGED <<pcA, usedLeft, pcM, paramVars, cutVars, fifoVars, tickVars,
                           held, gen, shouldShowFFTAnalysis,
                           sampleFifo, pathProducer>>

NextBypass == BypassApply

SpecBypass == InitAudioProgram /\ [][NextBypass]_vars

AllStagesBypassed(cs) == cs.lowCutBypassed /\ cs.peakBypassed /\ cs.highCutBypassed

\* C9: when monoChain was built by updateChain from a snapshot with all
\* three stage bypass flags set, the response curve paint computes is 0 dB
\* (magnitude 1) at every pixel; and when updateFilters ran on such a
\* snapshot, process leaves every sample of the buffer as it was handed in -
\* whatever the slopes, the slot flags and the stored coefficients are.
C9_AllBypassedIsIdentity ==
    /\ (mags.dB # <<>> /\ AllStagesBypassed(mags.snapshot)) =>
           \A i \in 1..Len(mags.dB) : mags.dB[i] = 0
    /\ (inBuf # NoBuffer /\ AllStagesBypassed(csA)) =>
           \A r \in Runs : outBuf[r] = inBuf

\* All three stages are bypassed while the peak is set to +12 dB and the
\* low cut to 12 dB/oct, with slot 2 of the low cut still holding the
\* coefficients of an earlier 36 dB/oct setting; a buffer with a non-zero
\* sample came out as it went in, and paint drew the curve of the bypassed
\* analysis chain.
C9_Witness ==
    /\ AllStagesBypassed(csA)
    /\ csA.lowCutSlope = Slope_12
    /\ csA.peakGainInDecibels = 12
    /\ leftChain.LowCut.byp = SlotFlagsFor(Slope_12)
    /\ leftChain.LowCut.coef[2].kind = "highpass"
    /\ leftChain.Peak = makePeakFilter(csA, sampleRate)
    /\ inBuf["L"][1] = 1
    /\ outBuf["A"] = inBuf
    /\ AllStagesBypassed(mags.snapshot)
    /\ mags.snapshot.peakGainInDecibels = 12
    /\ mags.dB = [i \in 1..Len(PixelFreqs) |-> 0]

(***************************************************************************)
(* The timer tick inside PathProducer::process, statement by statement,    *)
(* with the audio thread and prepareToPlay running beside it               *)
(*                                                                         *)
(* SpecTick follows run A.  The audio thread filters a buffer and then     *)
(* updates the two sample fifos; the message thread's tick runs            *)
(* leftPathProducer.process one loop iteration at a time and the rest of   *)
(* timerCallback in one step (rightPathProducer.process is the same code   *)
(* on a collector and a path producer of its own); the host calls          *)
(* prepareToPlay between audio callbacks, on a thread of its choice.       *)
(* Nothing in the program orders prepareToPlay and the tick.               *)
(***************************************************************************)

\* The blocks a Sample Collector pushes.
Blocks == [1..samplesPerBlock -> Samples]

\* The sample fifo of channel ch the tick drains.
TickFifo(ch) == sampleFifo["A"][ch].audioBufferFifo

\* The buffers the audio callbacks are handed while a tick is followed: a
\* steady signal on both channels.
TickBuffers == {[c \in Channels |-> [i \in 1..samplesPerBlock |-> 1]]}

\* processBlock up to and including leftChain.process / rightChain.process
TickProcessBlock ==
    \E buffer \in TickBuffers :
    \E c \in {updateFilters(getChainSettings(apvts), sampleRate, RealTimeChains)} :
    \E done \in {processBlockRun("A", buffer, c)} :
        /\ pcA = Idle
        /\ ~preparing
        /\ pcA' = <<"fifoUpdate", 0>>
        /\ csA' = getChainSettings(apvts)
        /\ leftChain' = c.L
        /\ rightChain' = c.R
        /\ inBuf' = buffer
        /\ outBuf' = [outBuf EXCEPT !["A"] = done.out]
        /\ filterMem' = [filterMem EXCEPT !["A"] = done.mem]
        /\ UNCHANGED <<usedLeft, monoChain, paramVars, messageVars, cutVars,
                       fifoVars, sampleFifo, pathProducer, mags, tickVars,
                       held, gen, shouldShowFFTAnalysis>>

\* processBlock: leftChannelFifo.update(buffer); rightChannelFifo.update(buffer)
TickFifoUpdate ==
    /\ pcA = <<"fifoUpdate", 0>>
    /\ pcA' = Idle
    /\ sampleFifo' = [sampleFifo EXCEPT
           !["A"] = [ch \in Channels |->
                        update_scsf(sampleFifo["A"][ch], outBuf["A"][ch])]]
    /\ UNCHANGED <<csA, usedLeft, chainVars, paramVars, messageVars, cutVars,
                   fifoVars, filterMem, inBuf, outBuf, pathProducer, mags,
                   tickVars, held, gen, shouldShowFFTAnalysis>>

\* prepareToPlay up to the first statement of leftChannelFifo.prepare: the
\* chains are prepared, updateFilters has run.  No audio callback is running.
TickPrepareBegin ==
    \E c \in {updateFilters(getChainSettings(apvts), sampleRate, RealTimeChains)} :
        /\ pcA = Idle
        /\ ~preparing
        /\ preparing' = TRUE
        /\ leftChain' = c.L
        /\ rightChain' = c.R
        /\ filterMem' = [filterMem EXCEPT !["A"] = [ch \in Channels |-> NewFilterMem]]
        /\ UNCHANGED <<monoChain, paramVars, audioVars, messageVars, cutVars,
                       fifoVars, inBuf, outBuf, sampleFifo, pathProducer, mags,
                       tick, held, gen, shouldShowFFTAnalysis>>

\* leftChannelFifo.prepare / rightChannelFifo.prepare have replaced the
\* accumulators and the ring storage; prepareToPlay returns.  A pull that
\* had copied from the old storage and has not released its slot yet has
\* raced with the reallocation.
TickPrepareEnd ==
    /\ preparing
    /\ preparing' = FALSE
    /\ sampleFifo' = [sampleFifo EXCEPT !["A"] = [ch \in Channels |-> NewSampleFifo]]
    /\ tick' = [tick EXCEPT !.raced = @ \/ tick.pc = "finishedRead"]
    /\ UNCHANGED <<chainVars, paramVars, audioVars, messageVars, cutVars,
                   fifoVars, filterMem, inBuf, outBuf, pathProducer, mags,
                   held, gen, shouldShowFFTAnalysis>>

\* timerCallback: leftPathProducer.process(fftBounds, sampleRate) is entered
TickBegin ==
    /\ tick.pc = "idle"
    /\ pcM = Idle
    /\ tick' = [NoTick EXCEPT !.pc = "audioLoop", !.ch = "L",
                              !.entryPath = pathProducer["L"].monoChannelFFTPath]
    /\ UNCHANGED <<chainVars, paramVars, audioVars, messageVars, cutVars,
                   fifoVars, audioIOVars, preparing, held, gen, shouldShowFFTAnalysis>>

\* while (monoChannelFifo->getNumCompleteBufferAvailable() > 0)
TickAudioTest ==
    /\ tick.pc = "audioLoop"
    /\ tick' = [tick EXCEPT !.pc = IF getNumAvailableForReading(TickFifo(tick.ch)) > 0
                                   THEN "getAudioBuffer" ELSE "fftLoop"]
    /\ UNCHANGED <<chainVars, paramVars, audioVars, messageVars, cutVars,
                   fifoVars, audioIOVars, preparing, held, gen, shouldShowFFTAnalysis>>

\* if (monoChannelFifo->getAudioBuffer(tmpIncomingBuffer)): the pull copies
\* the oldest unread block, or returns false.  A copy taken while the
\* storage is being reallocated has raced.
TickGetAudioBuffer ==
    /\ tick.pc = "getAudioBuffer"
    /\ IF getNumAvailableForReading(TickFifo(tick.ch)) > 0
       THEN tick' = [tick EXCEPT !.pc = "finishedRead",
                                 !.tmpIncomingBuffer = readSlot(TickFifo(tick.ch)),
                                 !.raced = preparing]
       ELSE tick' = [tick EXCEPT !.pc = "audioLoop"]
    /\ UNCHANGED <<chainVars, paramVars, audioVars, messageVars, cutVars,
                   fifoVars, audioIOVars, preparing, held, gen, shouldShowFFTAnalysis>>

\* The pull releases its slot and returns true; the window is shifted, the
\* block copied to its tail, produceFFTDataForRendering pushes the frame.
\* After a race the block is whatever the copy found.
TickFinishedRead ==
    \E block \in IF tick.raced THEN Blocks ELSE {tick.tmpIncomingBuffer} :
        LET pp == pathProducer[tick.ch]
            w == shiftIn(pp.monoBuffer, block)
        IN  /\ tick.pc = "finishedRead"
            /\ sampleFifo' = [sampleFifo EXCEPT
                   !["A"][tick.ch].audioBufferFifo = finishedRead(@)]
            /\ pathProducer' = [pathProducer EXCEPT
                   ![tick.ch] = [pp EXCEPT
                       !.monoBuffer = w,
                       !.fftDataFifo = push(@, produceFFTDataForRendering(w)).fifo]]
            /\ tick' = [tick EXCEPT !.pc = "audioLoop", !.tmpIncomingBuffer = <<>>,
                                    !.raced = FALSE]
            /\ UNCHANGED <<chainVars, paramVars, audioVars, messageVars, cutVars,
                           fifoVars, filterMem, inBuf, outBuf, mags, preparing,
                           held, gen, shouldShowFFTAnalysis>>

\* The two loops on the path producer's own fifos, which no other thread
\* touches: every FFT frame is pulled and turned into a path, every path is
\* pulled into monoChannelFFTPath; then process returns.
TickRender ==
    LET pp == pathProducer[tick.ch]
    IN  /\ tick.pc = "fftLoop"
        /\ pathProducer' = [pathProducer EXCEPT
               ![tick.ch] = retained(drainPaths(drainFFTData(pp)))]
        /\ tick' = [tick EXCEPT
               !.pc = "returned",
               !.pulled = getNumAvailableForReading(drainFFTData(pp).pathFifo) > 0]
        /\ UNCHANGED <<chainVars, paramVars, audioVars, messageVars, cutVars,
                       fifoVars, filterMem, inBuf, outBuf, sampleFifo, mags,
                       preparing, held, gen, shouldShowFFTAnalysis>>

\* timerCallback after leftPathProducer.process has returned:
\* rightPathProducer.process, the compare-and-set, updateChain when it
\* succeeded, repaint.
TickReturn ==
    /\ tick.pc = "returned"
    /\ \E done \in {PathProducer_process(pathProducer["R"], sampleFifo["A"]["R"])} :
        /\ tick' = NoTick
        /\ pathProducer' = [pathProducer EXCEPT !["R"] = done.pp]
        /\ sampleFifo' = [sampleFifo EXCEPT !["A"]["R"] = done.scsf]
        /\ IF parametersChanged
           THEN /\ parametersChanged' = FALSE
                /\ monoChain' = updateChain(getChainSettings(apvts), sampleRate,
                                            monoChain)
                /\ csM' = getChainSettings(apvts)
           ELSE UNCHANGED <<parametersChanged, monoChain, csM>>
        /\ UNCHANGED <<pcM, apvts, sampleRate, notifyPending, leftChain, rightChain,
                       audioVars, cutVars, fifoVars, filterMem, inBuf, outBuf, mags,
                       preparing, held, gen, shouldShowFFTAnalysis>>

\* The statements of leftPathProducer.process.
ProcessStep ==
    \/ TickAudioTest
    \/ TickGetAudioBuffer
    \/ TickFinishedRead
    \/ TickRender

\* The statements of a tick after its first.
TickStep ==
    \/ ProcessStep
    \/ TickReturn

NextTick ==
    \/ TickProcessBlock
    \/ TickFifoUpdate
    \/ TickBegin
    \/ TickStep

\* Audio callbacks and ticks, prepareToPlay not called again.
SpecTick == InitAudioProgram /\ [][NextTick]_vars

\* A tick that has begun takes its next statement eventually: the message
\* thread is not starved.  (TickReturn is enabled exactly when process has
\* returned, so its weak fairness is the last conjunct.)
SpecTickFair ==
    SpecTick /\ WF_vars(ProcessStep) /\ []<>(tick.pc # "returned")

NextPrepare ==
    \/ NextTick
    \/ TickPrepareBegin
    \/ TickPrepareEnd

\* Audio callbacks, ticks, and the host calling prepareToPlay again.
SpecPrepare == InitAudioProgram /\ [][NextPrepare]_vars

\* C11: when leftPathProducer.process has returned and a path was pulled in
\* the call, the retained path is the one derived from the analysis window
\* as the most recent block drained in the call left it, and nothing is
\* left in the path producer's fifos; when no path was pulled, the retained
\* path is the one retained at entry.
C11_RetainsLatestPath ==
    tick.pc = "returned" =>
        LET pp == pathProducer["L"]
        IN  /\ getNumAvailableForReading(pp.fftDataFifo) = 0
            /\ getNumAvailableForReading(pp.pathFifo) = 0
            /\ tick.pulled =>
                   pp.monoChannelFFTPath =
                       generatePath(produceFFTDataForRendering(pp.monoBuffer))
            /\ ~tick.pulled => pp.monoChannelFFTPath = tick.entryPath

\* C12: prepareToPlay is never inside the sample fifos' prepare while the
\* audio callback is between its first and its last statement or while a
\* pull of PathProducer::process has copied its block and not released the
\* slot yet.
C12_PrepareExcludesPushAndPull ==
    ~(preparing /\ (pcA # Idle \/ tick.pc = "finishedRead"))

\* C13: every tick that has begun returns.
C13_TickCompletes == (tick.pc # "idle") ~> (tick.pc = "idle")

(***************************************************************************)
(* Silence through the chain (SpecBypass: any snapshot on top of any       *)
(* earlier state of the chains and of the filters' memory)                 *)
(***************************************************************************)

\* A buffer of silence on both channels.
ZeroBuffer == [c \in Channels |-> [i \in 1..samplesPerBlock |-> 0]]

\* The filters' memory of both channels as prepare leaves it.
SilentMem == [c \in Channels |-> NewFilterMem]

\* C14 (as claimed): whenever the buffer handed in was silent, the buffer
\* the callback leaves is silent, whatever was processed before.
C14_SilenceInSilenceOut ==
    inBuf = ZeroBuffer => \A r \in Runs : outBuf[r] = ZeroBuffer

\* C14 (amended): a silent buffer comes out silent, for every configuration,
\* when the memory of all filters of the chain is zero (and the memory
\* stays zero); a silent buffer that comes out with a non-zero sample was
\* processed by a chain with a stage not bypassed whose filters still held
\* earlier non-zero samples.
C14_SilenceFromRest ==
    [][\A r \in Runs :
           inBuf' = ZeroBuffer =>
               /\ filterMem[r] = SilentMem =>
                      (outBuf'[r] = ZeroBuffer /\ filterMem'[r] = SilentMem)
               /\ outBuf'[r] # ZeroBuffer =>
                      (filterMem[r] # SilentMem /\ ~AllStagesBypassed(csA'))]_vars

\* Silence went through a chain whose memory is zero, with the peak at
\* +12 dB and the first low-cut slot active, and came out as silence.
C14_Witness ==
    /\ inBuf = ZeroBuffer
    /\ outBuf["A"] = ZeroBuffer
    /\ filterMem["A"] = SilentMem
    /\ ~AllStagesBypassed(csA)
    /\ ~csA.lowCutBypassed
    /\ csA.peakGainInDecibels = 12
    /\ ~leftChain.LowCut.byp[0]
    /\ leftChain.Peak = makePeakFilter(csA, sampleRate)

(***************************************************************************)
(* Restoring state and filtering a block while the other thread runs       *)
(* (Spec: the statements of processBlock and of setStateInformation        *)
(* interleaved)                                                            *)
(***************************************************************************)

\* Both real-time chains are what updateFilters makes of the snapshot cs.
ChainsReflect(cs, left, right) ==
    LET c == updateFilters(cs, sampleRate, [L |-> left, R |-> right])
    IN  left = c.L /\ right = c.R

\* C15: the parameter state changes only by a valid tree replacing it, and
\* updateFilters follows; a call with data that is no valid tree changes
\* nothing and leaves no handler running; when setStateInformation returns
\* after a valid tree, both real-time chains reflect the restored values.
C15_RestoreOnlyValidState ==
    /\ [][apvts' # apvts =>
              /\ isValid(apvts')
              /\ apvts' \in StateTrees
              /\ pcM = Idle /\ pcM' = <<"getChainSettings", 0>>
              /\ UNCHANGED <<leftChain, rightChain>>]_vars
    /\ [][pcM = <<"getChainSettings", 0>> =>
              (csM' = getChainSettings(apvts) \/ pcM' = pcM)]_vars
    /\ [][(pcM[1] = "updateFilters" /\ pcM' = Idle) =>
              ChainsReflect(getChainSettings(apvts), leftChain', rightChain')]_vars

\* The chain is what updateFilters makes of the snapshot cs.
ChainReflects(cs, chain) == ChainsReflect(cs, chain, chain)

\* C16: the audio thread reaches leftChain.process only from the last
\* statement of its updateFilters; the chain each channel of the block is
\* filtered with is, when it is read, the one updateFilters derives from
\* the snapshot csA this callback took - not a chain some statements of an
\* updateFilters have written and others have not.
C16_BlockFilteredWithOwnSnapshot ==
    /\ pcA = <<"process", 0>> => ChainReflects(csA, leftChain)
    /\ pcA = <<"process", 1>> =>
           (ChainReflects(csA, usedLeft) /\ ChainReflects(csA, rightChain))
    /\ pcA[1] \in {"process", "return"} => csA # NoSettings

(***************************************************************************)
(* What the Sample Collectors are handed (SpecAudio)                       *)
(***************************************************************************)

\* The block the last successful push put into a Sample Collector's fifo.
LastPushed(scsf) ==
    scsf.audioBufferFifo.slots[(scsf.audioBufferFifo.written - 1) % FifoCapacity]

\* A push into the collector of run r, channel ch has succeeded in this step.
Pushed(r, ch) ==
    sampleFifo'[r][ch].audioBufferFifo.written # sampleFifo[r][ch].audioBufferFifo.written

\* C17 (as claimed): the block a callback pushes into a collector holds the
\* samples of the buffer as it was received.
C17_CollectorsGetRawInput ==
    [][\A r \in Runs, ch \in Channels :
           Pushed(r, ch) => LastPushed(sampleFifo'[r][ch]) = inBuf'[ch]]_vars

\* C17 (amended): the block a callback pushes into a collector holds the
\* samples the filter chain of that channel left in the buffer, which
\* process has overwritten in place.
C17_CollectorsGetProcessed ==
    [][\A r \in Runs, ch \in Channels :
           Pushed(r, ch) => LastPushed(sampleFifo'[r][ch]) = outBuf'[r][ch]]_vars

\* The filters changed the buffer, and the block pushed last into the left
\* collector of run A is the filtered one.
C17_Witness ==
    /\ inBuf # NoBuffer
    /\ outBuf["A"]["L"] # inBuf["L"]
    /\ getNumAvailableForReading(sampleFifo["A"]["L"].audioBufferFifo) > 0
    /\ LastPushed(sampleFifo["A"]["L"]) = outBuf["A"]["L"]
    /\ LastPushed(sampleFifo["A"]["L"]) # inBuf["L"]

(***************************************************************************)
(* A Sample Collector fed blocks of any length (SpecCollector)             *)
(*                                                                         *)
(* The samples carry their arrival number, so that a block shows which     *)
(* samples it holds and in which order.  accepted lists the blocks that    *)
(* became readable, delivered the blocks pulled.                           *)
(***************************************************************************)

\* The block sizes prepareToPlay is called with.
CollectorSizes == {2, 3}

\* The longest buffer update is handed, and the number of samples fed
\* between two calls of prepare.
MaxIncoming == 4
MaxSamples == 8

\* The collector followed: leftChannelFifo.
Collector == sampleFifo["A"]["L"]

\* The number of samples the collector has consumed since prepare.
Total == nextItem - 1

\* prepareToPlay(sampleRate, n): chains prepared, updateFilters, both
\* collectors prepared for blocks of n samples.
CollectorPrepare ==
    \E n \in CollectorSizes :
    \E c \in {updateFilters(getChainSettings(apvts), sampleRate, RealTimeChains)} :
        /\ pcA = Idle
        /\ leftChain' = c.L
        /\ rightChain' = c.R
        /\ filterMem' = [r \in Runs |-> [ch \in Channels |-> NewFilterMem]]
        /\ sampleFifo' = [r \in Runs |-> [ch \in Channels |-> prepare_scsf(n)]]
        /\ accepted' = <<>>
        /\ delivered' = <<>>
        /\ nextItem' = 1
        /\ UNCHANGED <<monoChain, paramVars, audioVars, messageVars, cutVars,
                       fifo, producer, consumer, rejected, returned,
                       inBuf, outBuf, pathProducer, mags, tickVars,
                       held, gen, shouldShowFFTAnalysis>>

\* leftChannelFifo.update(buffer) on a buffer of n samples
CollectorUpdate ==
    \E n \in 0..MaxIncoming :
        LET block == [i \in 1..n |-> nextItem + i - 1]
            done == update_scsf(Collector, block)
            before == getNumAvailableForReading(Collector.audioBufferFifo)
            after == getNumAvailableForReading(done.audioBufferFifo)
        IN  /\ Total + n <= MaxSamples
            /\ sampleFifo' = [sampleFifo EXCEPT !["A"]["L"] = done]
            /\ nextItem' = nextItem + n
            /\ accepted' = accepted \o SubSeq(Readable(done.audioBufferFifo),
                                              before + 1, after)
            /\ UNCHANGED <<chainVars, paramVars, audioVars, messageVars, cutVars,
                           fifo, producer, consumer, delivered, rejected, returned,
                           filterMem, inBuf, outBuf, pathProducer, mags, tickVars,
                           held, gen, shouldShowFFTAnalysis>>

\* getAudioBuffer(buf): one block is pulled from the collector's ring buffer
CollectorPull ==
    LET got == pull(Collector.audioBufferFifo)
    IN  /\ got.ok
        /\ sampleFifo' = [sampleFifo EXCEPT !["A"]["L"].audioBufferFifo = got.fifo]
        /\ delivered' = Append(delivered, got.item)
        /\ UNCHANGED <<chainVars, paramVars, audioVars, messageVars, cutVars,
                       fifo, producer, consumer, accepted, rejected, nextItem,
                       returned, filterMem, inBuf, outBuf, pathProducer, mags,
                       tickVars, held, gen, shouldShowFFTAnalysis>>

NextCollector ==
    \/ CollectorPrepare
    \/ CollectorUpdate
    \/ CollectorPull

SpecCollector == InitAudioProgram /\ [][NextCollector]_vars

\* The block of the prepared size that starts after k whole blocks.
AlignedBlock(k, size) == [j \in 1..size |-> k * size + j]

\* C18: between calls the accumulator holds the last Total mod size samples
\* in arrival order, fewer than size; every block that became readable is a
\* run of size consecutive samples starting at a multiple of size, and the
\* blocks became readable in arrival order; an update makes readable every
\* block completed in it when the ring buffer has room for them, and
\* otherwise ends on a full ring buffer - so with no push dropped the
\* number of blocks pushed is Total div size.
C18_CollectorBlocks ==
    /\ [](LET size == Collector.size
              fill == Total % size
          IN  /\ Len(Collector.bufferToFill) \in 0..(size - 1)
              /\ Collector.bufferToFill = [i \in 1..fill |-> Total - fill + i]
              /\ \A i \in 1..Len(accepted) :
                     \E k \in 0..((Total \div size) - 1) :
                         accepted[i] = AlignedBlock(k, size)
              /\ \A i, j \in 1..Len(accepted) :
                     i < j => accepted[i][1] < accepted[j][1]
              /\ delivered \o Readable(Collector.audioBufferFifo) = accepted
              /\ Len(accepted) <= Total \div size)
    /\ [][(nextItem' > nextItem /\ Collector'.size = Collector.size) =>
              LET size == Collector.size
                  due == ((nextItem' - 1) \div size) - (Total \div size)
                  got == Len(accepted') - Len(accepted)
              IN  /\ got <= due
                  /\ getFreeSpace(Collector.audioBufferFifo) >= due => got = due
                  /\ got < due => getFreeSpace(Collector'.audioBufferFifo) = 0]_vars

\* A collector prepared for blocks of three samples has consumed eight: two
\* blocks were completed, the first was pulled, and two samples wait in the
\* accumulator.
C18_Witness ==
    /\ Collector.size = 3
    /\ Total = 8
    /\ accepted = <<AlignedBlock(0, 3), AlignedBlock(1, 3)>>
    /\ delivered = <<AlignedBlock(0, 3)>>
    /\ Collector.bufferToFill = <<7, 8>>

(***************************************************************************)
(* The response curve as a product of contributions (SpecBypass)           *)
(***************************************************************************)

\* The biquads of a chain: the peak filter and the four slots of each cut
\* stage.
Biquads == {<<"Peak", 0>>} \cup ({"LowCut", "HighCut"} \X Slots)

\* The biquads whose stage is not bypassed and, in a cut stage, whose slot
\* is not bypassed.
Contributors(chain) ==
    {b \in Biquads :
        /\ ~chain.byp[b[1]]
        /\ b[1] # "Peak" => ~chain[b[1]].byp[b[2]]}

\* The magnitude of one biquad at a frequency.
BiquadMagnitude(chain, b, freq) ==
    getMagnitudeForFrequency(
        IF b[1] = "Peak" THEN chain.Peak ELSE chain[b[1]].coef[b[2]], freq)

\* The product of the magnitudes of a set of biquads, from magnitude 1.
RECURSIVE ProductOver(_, _, _)
ProductOver(chain, S, freq) ==
    IF S = {} THEN UnityMag
    ELSE LET b == CHOOSE x \in S : TRUE
         IN  mulMag(ProductOver(chain, S \ {b}, freq),
                    BiquadMagnitude(chain, b, freq))

\* C20: the value paint stores for a pixel is gainToDecibels of the product
\* of the magnitudes of exactly the contributing biquads: a slot of a cut
\* stage when neither its stage nor the slot is bypassed, the peak filter
\* when the Peak stage is not bypassed.
C20_CurveIsProductOfActiveBiquads ==
    mags.dB # <<>> =>
        /\ Len(mags.dB) = Len(PixelFreqs)
        /\ \A i \in 1..Len(PixelFreqs) :
               mags.dB[i] = gainToDecibels(
                   ProductOver(monoChain, Contributors(monoChain), PixelFreqs[i]))

\* The curve of a chain whose Peak stage is bypassed at +12 dB and whose low
\* cut at 500 Hz has three active slots: three halvings below the cut-off,
\* nothing from the peak, nothing from the fourth slot.
C20_Witness ==
    /\ mags.snapshot.peakBypassed
    /\ ~mags.snapshot.lowCutBypassed
    /\ mags.snapshot.peakGainInDecibels = 12
    /\ mags.snapshot.lowCutSlope = Slope_36
    /\ Contributors(monoChain) \cap ({"LowCut"} \X Slots) = {"LowCut"} \X (0..2)
    /\ <<"Peak", 0>> \notin Contributors(monoChain)
    /\ mags.dB = <<-18, -18, 0>>

(***************************************************************************)
(* The analysis chain beside the real-time chains (SpecRebuild)            *)
(*                                                                         *)
(* updateChain runs on the ticks that find the flag set, updateFilters on  *)
(* every audio callback: the chains are rebuilt at different moments, so   *)
(* each has its own history.  csM is the snapshot monoChain was last       *)
(* rebuilt from, csA the one the real-time chains were last rebuilt from.  *)
(***************************************************************************)

\* ResponseCurveComponent::updateChain, run without interruption
RebuildMono ==
    \E tree \in BypassTrees :
    \E cs \in {getChainSettings(tree)} :
        /\ monoChain' = updateChain(cs, sampleRate, monoChain)
        /\ csM' = cs
        /\ UNCHANGED <<leftChain, rightChain, pcA, csA, usedLeft, pcM,
                       paramVars, cutVars, analyzerVars>>

\* SimpleEQAudioProcessor::updateFilters, run without interruption
RebuildRealTime ==
    \E tree \in BypassTrees :
    \E cs \in {getChainSettings(tree)} :
    \E c \in {updateFilters(cs, sampleRate, RealTimeChains)} :
        /\ leftChain' = c.L
        /\ rightChain' = c.R
        /\ csA' = cs
        /\ UNCHANGED <<monoChain, pcA, usedLeft, pcM, csM,
                       paramVars, cutVars, analyzerVars>>

NextRebuild == RebuildMono \/ RebuildRealTime

SpecRebuild == InitAudioProgram /\ [][NextRebuild]_vars

\* All three chains were last rebuilt from one and the same snapshot.
SameSnapshot == csM # NoSettings /\ csM = csA

\* C21 as stated: rebuilt from the same snapshot, monoChain equals leftChain
\* and rightChain in the three stage flags, the slot flags and the
\* coefficients of every slot.
C21_SameChainInEverySlot ==
    SameSnapshot => (monoChain = leftChain /\ monoChain = rightChain)

\* C21, amended: rebuilt from the same snapshot, monoChain has the stage
\* flags, the slot flags, the peak coefficients and, in every slot that is
\* not bypassed, the coefficients of leftChain and rightChain; a bypassed
\* slot holds what its own chain's earlier rebuilds left there.
C21_SameChainInActiveSlots ==
    SameSnapshot =>
        /\ monoChain.byp = leftChain.byp
        /\ monoChain.byp = rightChain.byp
        /\ monoChain.Peak = leftChain.Peak
        /\ monoChain.Peak = rightChain.Peak
        /\ \A p \in {"LowCut", "HighCut"} :
               /\ monoChain[p].byp = leftChain[p].byp
               /\ monoChain[p].byp = rightChain[p].byp
               /\ \A i \in Slots : ~monoChain[p].byp[i] =>
                      /\ monoChain[p].coef[i] = leftChain[p].coef[i]
                      /\ monoChain[p].coef[i] = rightChain[p].coef[i]
        /\ Effective(monoChain) = Effective(leftChain)

\* The real-time chains were rebuilt for 36 dB/oct and then for 12 dB/oct,
\* the analysis chain for 12 dB/oct only: slot 2 of the low cut is bypassed
\* in all three and holds the order-6 design in leftChain, the default
\* coefficients in monoChain.
C21_Witness ==
    /\ SameSnapshot
    /\ csM.lowCutSlope = Slope_12
    /\ monoChain.LowCut.byp[2] /\ leftChain.LowCut.byp[2]
    /\ leftChain.LowCut.coef[2].order = 6
    /\ monoChain.LowCut.coef[2] = DefaultCoef
    /\ monoChain.LowCut.coef[0] = leftChain.LowCut.coef[0]

(***************************************************************************)
(* The analysis window fed blocks of any prepared size (SpecWindow)        *)
(*                                                                         *)
(* The samples carry their arrival number.  delivered lists the blocks the *)
(* path producer pulled, in the order it pulled them.                      *)
(***************************************************************************)

\* The block sizes prepareToPlay is called with: below, at and above the
\* length of the analysis window.
WindowSizes == {fftSize - 1, fftSize, fftSize + 1}

\* What a float read from memory outside the window and the block holds.
GarbageSample == -1

\* The number of samples fed to the collector in one behaviour.
MaxWindowSamples == 6

\* The first FloatVectorOperations::copy of the loop body:
\* copy(getWritePointer(0, 0), getReadPointer(0, size), getNumSamples() - size)
ShiftLength(n, size) == n - size
ShiftReads(n, size) == {size + k : k \in 0..(ShiftLength(n, size) - 1)}
ShiftWrites(n, size) == {k : k \in 0..(ShiftLength(n, size) - 1)}

\* The second copy:
\* copy(getWritePointer(0, getNumSamples() - size), tmp.getReadPointer(0, 0), size)
TailOffset(n, size) == n - size
TailWrites(n, size) == {TailOffset(n, size) + k : k \in 0..(size - 1)}

\* The two copies stay inside a window of n samples.
CopiesInsideWindow(n, size) ==
    /\ ShiftLength(n, size) >= 0
    /\ TailOffset(n, size) >= 0
    /\ ShiftReads(n, size) \cup ShiftWrites(n, size) \cup TailWrites(n, size)
           \subseteq 0..(n - 1)

\* The windows the two copies can leave: the shifted window when they stay
\* inside it; otherwise the count of the first copy is negative and the
\* second writes from before the start of the window, and the window holds
\* samples of the block or whatever else the copies moved.
WindowsAfter(monoBuffer, block) ==
    IF CopiesInsideWindow(Len(monoBuffer), Len(block))
    THEN {shiftIn(monoBuffer, block)}
    ELSE [1..Len(monoBuffer) ->
             {block[i] : i \in 1..Len(block)} \cup {GarbageSample}]

\* The first loop of PathProducer::process with every outcome of its copies;
\* pulled lists the blocks pulled so far, crashed tells that a copy outside
\* the window ended the process.
RECURSIVE drainIntoWindow(_, _, _)
drainIntoWindow(pp, scsf, pulled) ==
    IF getNumAvailableForReading(scsf.audioBufferFifo) > 0
    THEN LET got == pull(scsf.audioBufferFifo)
             next == [scsf EXCEPT !.audioBufferFifo = got.fifo]
         IN  (IF CopiesInsideWindow(Len(pp.monoBuffer), Len(got.item)) THEN {}
              ELSE {[pp |-> pp, scsf |-> next,
                     pulled |-> Append(pulled, got.item), crashed |-> TRUE]})
             \cup
             UNION {drainIntoWindow(
                        [pp EXCEPT !.monoBuffer = w,
                                   !.fftDataFifo =
                                       push(@, produceFFTDataForRendering(w)).fifo],
                        next, Append(pulled, got.item)) :
                    w \in WindowsAfter(pp.monoBuffer, got.item)}
    ELSE {[pp |-> pp, scsf |-> scsf, pulled |-> pulled, crashed |-> FALSE]}

\* prepareToPlay(sampleRate, n) while the editor is open: the collectors are
\* prepared for blocks of n samples; the path producers are the editor's and
\* are not touched.
WindowPrepare ==
    \E n \in WindowSizes :
    \E c \in {updateFilters(getChainSettings(apvts), sampleRate, RealTimeChains)} :
        /\ tick.pc = "idle"
        /\ pcA = Idle
        /\ leftChain' = c.L
        /\ rightChain' = c.R
        /\ filterMem' = [r \in Runs |-> [ch \in Channels |-> NewFilterMem]]
        /\ sampleFifo' = [r \in Runs |-> [ch \in Channels |-> prepare_scsf(n)]]
        /\ UNCHANGED <<monoChain, paramVars, audioVars, messageVars, cutVars,
                       fifoVars, inBuf, outBuf, pathProducer, mags, tickVars,
                       held, gen, shouldShowFFTAnalysis>>

\* leftChannelFifo.update(buffer) of an audio callback
WindowUpdate ==
    /\ tick.pc = "idle"
    /\ CollectorUpdate
    /\ nextItem' - 1 <= MaxWindowSamples

\* leftPathProducer.process(fftBounds, sampleRate) of a tick
WindowProcess ==
    /\ tick.pc = "idle"
    /\ \E d \in drainIntoWindow(pathProducer["L"], Collector, <<>>) :
           /\ sampleFifo' = [sampleFifo EXCEPT !["A"]["L"] = d.scsf]
           /\ delivered' = delivered \o d.pulled
           /\ IF d.crashed
              THEN /\ tick' = [tick EXCEPT !.pc = "crashed"]
                   /\ UNCHANGED pathProducer
              ELSE /\ pathProducer' = [pathProducer EXCEPT
                          !["L"] = retained(drainPaths(drainFFTData(d.pp)))]
                   /\ UNCHANGED tick
    /\ UNCHANGED <<chainVars, paramVars, audioVars, messageVars, cutVars,
                   fifo, producer, consumer, accepted, rejected, nextItem,
                   returned, filterMem, inBuf, outBuf, mags, preparing,
                   held, gen, shouldShowFFTAnalysis>>

NextWindow ==
    \/ WindowPrepare
    \/ WindowUpdate
    \/ WindowProcess

SpecWindow == InitAudioProgram /\ [][NextWindow]_vars

\* The samples of a sequence of blocks, in order.
RECURSIVE Flatten(_)
Flatten(blocks) ==
    IF blocks = <<>> THEN <<>> ELSE Head(blocks) \o Flatten(Tail(blocks))

\* The last n of the samples pulled, after the zeros of a new window.
MostRecent(n, blocks) ==
    LET all == [i \in 1..n |-> 0] \o Flatten(blocks)
    IN  SubSeq(all, Len(all) - n + 1, Len(all))

\* The analysis window of the left path producer.
Window == pathProducer["L"].monoBuffer

\* C22: the window keeps the length it was constructed with, and after
\* every call of process in which blocks were pulled it holds the most
\* recent fftSize samples pulled, in arrival order.
C22_WindowHoldsMostRecent ==
    tick.pc = "idle" =>
        /\ Len(Window) = fftSize
        /\ Window = MostRecent(fftSize, delivered)

\* C26: for every block pulled, the shift length and the tail offset of the
\* two copies are not negative and every sample index they read or write is
\* inside the window.
C26_CopiesStayInsideWindow ==
    [][\A i \in (Len(delivered) + 1)..Len(delivered') :
           CopiesInsideWindow(Len(Window), Len(delivered'[i]))]_vars

(***************************************************************************)
(* getChainSettings load by load, beside parameter stores (SpecSnapshot)   *)
(*                                                                         *)
(* The audio thread is inside getChainSettings (pcA tells which load is    *)
(* next, csA is the local cs); the host stores parameters on another       *)
(* thread.  Every raw value is a std::atomic<float>: a load reads the      *)
(* whole value of one store.                                               *)
(***************************************************************************)

\* The parameters in the order getChainSettings loads them.
LoadOrder ==
    <<"LowCut Freq", "HighCut Freq", "LowCut Slope", "HighCut Slope",
      "Peak Freq", "Peak Gain", "Peak Quality",
      "LowCut Bypassed", "HighCut Bypassed", "Peak Bypassed">>

\* The field of ChainSettings a parameter is loaded into.
FieldOf(id) ==
    CASE id = "LowCut Freq" -> "lowCutFreq"
      [] id = "HighCut Freq" -> "highCutFreq"
      [] id = "LowCut Slope" -> "lowCutSlope"
      [] id = "HighCut Slope" -> "highCutSlope"
      [] id = "Peak Freq" -> "peakFreq"
      [] id = "Peak Gain" -> "peakGainInDecibels"
      [] id = "Peak Quality" -> "peakQuality"
      [] id = "LowCut Bypassed" -> "lowCutBypassed"
      [] id = "HighCut Bypassed" -> "highCutBypassed"
      [] id = "Peak Bypassed" -> "peakBypassed"

\* The value a field takes from a raw value: the raw value itself, cast to
\* Slope, or compared with 0.5f.
FieldValue(id, raw) ==
    IF id \in {"LowCut Bypassed", "HighCut Bypassed", "Peak Bypassed"}
    THEN AboveHalf(raw) ELSE raw

\* A load that returns the value the parameter was created with.
loadField_Default(cs, id, a) ==
    [cs EXCEPT ![FieldOf(id)] = FieldValue(id, createParameterLayout[id])]

\* cs.field = apvts.getRawParameterValue(id)->load() (with its conversion)
loadField(cs, id, a) ==
    [cs EXCEPT ![FieldOf(id)] = FieldValue(id, a[id])]

\* The stores the host makes while the snapshot is taken.
SnapshotChanges ==
    HostParamChanges \cup {<<"Peak Gain", g>> : g \in PeakGains}

\* getChainSettings is entered: ChainSettings cs;
SnapshotBegin ==
    /\ pcA = Idle
    /\ pcA' = <<"getChainSettings", 1>>
    /\ csA' = NoSettings
    /\ held' = [id \in ParamIDs |-> {apvts[id]}]
    /\ UNCHANGED <<usedLeft, chainVars, paramVars, messageVars, cutVars,
                   fifoVars, audioIOVars, tickVars, pathVars, enableVars>>

\* The next load of getChainSettings; return cs after the last.
SnapshotLoad ==
    /\ pcA[1] = "getChainSettings"
    /\ csA' = loadField(csA, LoadOrder[pcA[2]], apvts)
    /\ pcA' = IF pcA[2] = Len(LoadOrder) THEN Idle
              ELSE <<"getChainSettings", pcA[2] + 1>>
    /\ UNCHANGED <<usedLeft, chainVars, paramVars, messageVars, cutVars,
                   analyzerVars>>

\* A parameter is given a new value (one atomic store); its listeners are
\* called next.
SnapshotStore ==
    \E ch \in SnapshotChanges :
        /\ ~notifyPending
        /\ apvts[ch[1]] # ch[2]
        /\ apvts' = [apvts EXCEPT ![ch[1]] = ch[2]]
        /\ notifyPending' = TRUE
        /\ held' = IF pcA[1] = "getChainSettings"
                   THEN [held EXCEPT ![ch[1]] = @ \cup {ch[2]}]
                   ELSE held
        /\ UNCHANGED <<sampleRate, parametersChanged, chainVars, audioVars,
                       messageVars, cutVars, fifoVars, audioIOVars, tickVars,
                       pathVars, enableVars>>

NextSnapshot ==
    \/ SnapshotBegin
    \/ SnapshotLoad
    \/ SnapshotStore
    \/ parameterValueChanged

SpecSnapshot == InitAudioProgram /\ [][NextSnapshot]_vars

\* The parameters getChainSettings has loaded so far.
Loaded ==
    IF pcA[1] = "getChainSettings"
    THEN {LoadOrder[k] : k \in 1..(pcA[2] - 1)}
    ELSE IF held = NoHeld THEN {} ELSE ParamIDs

\* C23: each parameter is loaded once, in the order of the source; every
\* field loaded is the conversion of a raw value its parameter held at some
\* moment since the call began (one it had at entry or one stored since),
\* the fields not loaded yet are untouched, and a call during which nothing
\* was stored returns the settings of the parameter state.
C23_SnapshotFieldsWereHeld ==
    /\ [](\A id \in ParamIDs :
            IF id \in Loaded
            THEN \E raw \in held[id] : csA[FieldOf(id)] = FieldValue(id, raw)
            ELSE csA[FieldOf(id)] = NoSettings[FieldOf(id)])
    /\ []((Loaded = ParamIDs /\ \A id \in ParamIDs : held[id] = {apvts[id]})
              => csA = getChainSettings(apvts))
    /\ [][(pcA[1] = "getChainSettings" /\ csA' # csA) =>
              /\ \E id \in ParamIDs :
                     /\ id = LoadOrder[pcA[2]]
                     /\ csA' = [csA EXCEPT ![FieldOf(id)] = FieldValue(id, apvts[id])]
              /\ pcA' \in {Idle, <<"getChainSettings", pcA[2] + 1>>}]_vars

\* A snapshot that is the settings of no parameter state held during the
\* call: the slope was stored after its load and the peak gain afterwards,
\* before its load, so the snapshot has the old slope and the new gain.
C23_Witness ==
    /\ pcA = Idle
    /\ Loaded = ParamIDs
    /\ held["LowCut Slope"] = {Slope_12, Slope_36}
    /\ held["Peak Gain"] = {0, 12}
    /\ csA.lowCutSlope = Slope_12
    /\ apvts["LowCut Slope"] = Slope_36
    /\ csA.peakGainInDecibels = 12
    /\ csA # getChainSettings(apvts)

(***************************************************************************)
(* generatePath: the x coordinate of every point (SpecPath)                *)
(*                                                                         *)
(* The logarithm of mapFromLog10 is computed in fixed point: the binary    *)
(* logarithm of an integer, with FracBits binary places, by repeated       *)
(* squaring of the mantissa.                                               *)
(***************************************************************************)

\* FFTOrder::order2048: getFFTSize() = 1 << 11
PathFFTSize == 2048

\* The width of the analysis area of the editor (600 wide, 20 removed on
\* either side).
AnalysisWidth == 560

\* The ends of the frequency axis.
AxisMinHz == 20
AxisMaxHz == 20000

\* Binary places of the mantissa and of the logarithm.
MantissaBits == 14
FracBits == 10

RECURSIVE Pow2(_)
Pow2(k) == IF k = 0 THEN 1 ELSE 2 * Pow2(k - 1)

\* floor(log2(n)) for n >= 1
RECURSIVE FloorLog2(_)
FloorLog2(n) == IF n < 2 THEN 0 ELSE 1 + FloorLog2(n \div 2)

\* The binary places of log2 of a mantissa m in [1, 2), most significant
\* first: square, and halve when the square reaches 2.
RECURSIVE FracLog2(_, _)
FracLog2(m, places) ==
    IF places = 0 THEN 0
    ELSE LET sq == (m * m) \div Pow2(MantissaBits)
         IN  IF sq >= 2 * Pow2(MantissaBits)
             THEN Pow2(places - 1) + FracLog2(sq \div 2, places - 1)
             ELSE FracLog2(sq, places - 1)

\* log2(n) * 2^FracBits, for an integer n >= 1
Log2Fixed(n) ==
    LET e == FloorLog2(n)
        m == IF e >= MantissaBits THEN n \div Pow2(e - MantissaBits)
             ELSE n * Pow2(MantissaBits - e)
    IN  e * Pow2(FracBits) + FracLog2(m, FracBits)

\* std::floor(juce::mapFromLog10(binNum * binWidth, 20.f, 20000.f) * width)
\* with binWidth = sampleRate / fftSize:
\* log10(v / min) / log10(max / min) = (log2 v - log2 min) / (log2 max - log2 min)
binXOf(binNum, rate, size, width) ==
    LET num == Log2Fixed(binNum * rate) - Log2Fixed(size * AxisMinHz)
        den == Log2Fixed(AxisMaxHz) - Log2Fixed(AxisMinHz)
    IN  (num * width) \div den

\* generatePath up to the loop: p.startNewSubPath(0, y)
PathBegin ==
    /\ gen.pc = "idle"
    /\ gen' = [pc |-> "loop", binNum |-> 1, p |-> <<0>>]
    /\ UNCHANGED <<chainVars, paramVars, audioVars, messageVars, cutVars,
                   fifoVars, audioIOVars, tickVars, snapshotVars, enableVars>>

\* One turn of the loop: for (binNum = 1; binNum < nbBins; binNum += 2)
\* p.lineTo(binX, y).  The data are decibel values no lower than negInf, so
\* y is a number and the point is added.
PathLineTo ==
    /\ gen.pc = "loop"
    /\ gen.binNum < PathFFTSize \div 2
    /\ gen' = [gen EXCEPT
           !.p = Append(@, binXOf(gen.binNum, sampleRate, PathFFTSize, AnalysisWidth)),
           !.binNum = @ + 2]
    /\ UNCHANGED <<chainVars, paramVars, audioVars, messageVars, cutVars,
                   fifoVars, audioIOVars, tickVars, snapshotVars, enableVars>>

\* The loop has ended: pathFifo.push(p)
PathPush ==
    /\ gen.pc = "loop"
    /\ gen.binNum >= PathFFTSize \div 2
    /\ gen' = [gen EXCEPT !.pc = "pushed"]
    /\ UNCHANGED <<chainVars, paramVars, audioVars, messageVars, cutVars,
                   fifoVars, audioIOVars, tickVars, snapshotVars, enableVars>>

NextPath ==
    \/ PathBegin
    \/ PathLineTo
    \/ PathPush

SpecPath == Init /\ [][NextPath]_vars

\* C24: every point of the path has its x coordinate within [0, width].
C24_PathXWithinBounds ==
    \A i \in 1..Len(gen.p) : gen.p[i] \in 0..AnalysisWidth

\* The points of the bins between 20 Hz and 20000 Hz lie within [0, width],
\* and x does not decrease along the path.
PathXWithinAxis ==
    \A i \in 2..Len(gen.p) :
        LET binNum == 2 * i - 3
        IN  /\ gen.p[i - 1] <= gen.p[i]
            /\ (/\ binNum * sampleRate >= AxisMinHz * PathFFTSize
                /\ binNum * sampleRate <= AxisMaxHz * PathFFTSize)
                   => gen.p[i] \in 0..AnalysisWidth

(***************************************************************************)
(* Who touches the real-time chains (Spec)                                 *)
(***************************************************************************)

\* The audio thread has written the chains in its updateFilters and has not
\* finished process on them.
AudioUsesChains ==
    \/ pcA[1] = "updateFilters" /\ pcA[2] > 1
    \/ pcA[1] = "process"

\* The thread that called setStateInformation is between two chain-writing
\* statements of its updateFilters.
MessageWritesChains == pcM[1] = "updateFilters" /\ pcM[2] > 1

\* C25: no updateFilters called from setStateInformation or prepareToPlay
\* is between two of its writes to leftChain and rightChain while an audio
\* callback is between its first write to them and the end of process.
C25_ChainsHaveOneUser == ~(AudioUsesChains /\ MessageWritesChains)

(***************************************************************************)
(* Frames and paths of one call of process (SpecTick)                      *)
(***************************************************************************)

\* The path producer the tick is in.
TickProducer == pathProducer[tick.ch]

\* C27: every block the first loop of process pulls adds one frame to the
\* FFT-data fifo (the push inside produceFFTDataForRendering is not
\* rejected), and when the second loop starts the path fifo has room for a
\* path of every frame.
C27_EveryBlockYieldsFrameAndPath ==
    /\ [][(tick.pc = "finishedRead" /\ tick'.pc = "audioLoop") =>
              getNumAvailableForReading(TickProducer.fftDataFifo') =
                  getNumAvailableForReading(TickProducer.fftDataFifo) + 1]_vars
    /\ [](tick.pc = "fftLoop" =>
              getFreeSpace(TickProducer.pathFifo) >=
                  getNumAvailableForReading(TickProducer.fftDataFifo))

\* C28: when process returns, and whenever no call of process is under
\* way, the FFT-data fifo and the path fifo of both path producers are
\* empty: the second loop has turned every frame of the call into a path
\* and the third has pulled every path.
C28_FifosEmptyAtReturn ==
    /\ (tick.pc \in {"returned", "idle"}) =>
           \A ch \in Channels :
               /\ getNumAvailableForReading(pathProducer[ch].fftDataFifo) = 0
               /\ getNumAvailableForReading(pathProducer[ch].pathFifo) = 0
    /\ (tick.pc \in {"audioLoop", "getAudioBuffer", "finishedRead"}) =>
           getNumAvailableForReading(TickProducer.pathFifo) = 0

\* A call of process that pulled two blocks has returned: their two frames
\* became two paths, the second is retained, and both fifos are empty.
C28_Witness ==
    /\ tick.pc = "returned"
    /\ tick.pulled
    /\ pathProducer["L"].monoBuffer = <<1, 1>>
    /\ pathProducer["L"].monoChannelFFTPath = generatePath(produceFFTDataForRendering(<<1, 1>>))
    /\ getNumAvailableForReading(pathProducer["L"].fftDataFifo) = 0
    /\ getNumAvailableForReading(pathProducer["L"].pathFifo) = 0

(***************************************************************************)
(* The timer tick while the spectrum analysis is disabled (SpecAnalyzer)   *)
(*                                                                         *)
(* The editor's "Analyzer Enabled" button hands its toggle state to the    *)
(* response curve component, whose timerCallback calls process on the two  *)
(* path producers only while shouldShowFFTAnalysis is true.  The tick is   *)
(* run without interruption, as timerTick is; the audio callback is        *)
(* processBlockAudio, which never reads the flag.                          *)
(***************************************************************************)

\* analyzerEnabledButton.onClick: rcc.toggleAnalysisEnablement(enabled) with
\* enabled the toggle state of the button
toggleAnalysisEnablement ==
    \E enabled \in BOOLEAN :
        /\ pcM = Idle
        /\ shouldShowFFTAnalysis' = enabled
        /\ UNCHANGED <<chainVars, paramVars, audioVars, messageVars, cutVars,
                       fifoVars, audioIOVars, tickVars, snapshotVars, pathVars>>

\* The compare-and-set of a tick and what follows it: updateChain when the
\* flag was set.
consumeParametersChanged ==
    LET cs == getChainSettings(apvts)
    IN  IF parametersChanged
        THEN /\ parametersChanged' = FALSE
             /\ monoChain' = updateChain(cs, sampleRate, monoChain)
             /\ csM' = cs
        ELSE UNCHANGED <<parametersChanged, monoChain, csM>>

\* A tick that returns at once while the analysis is disabled.
analyzerTimerCallback_ReturnsWhenDisabled ==
    /\ pcM = Idle
    /\ IF shouldShowFFTAnalysis
       THEN pathProducersProcess /\ consumeParametersChanged
       ELSE UNCHANGED <<pathProducer, sampleFifo, parametersChanged, monoChain, csM>>
    /\ UNCHANGED <<pcM, apvts, sampleRate, notifyPending, leftChain, rightChain,
                   audioVars, cutVars, fifoVars, tickVars, snapshotVars, pathVars,
                   enableVars, filterMem, inBuf, outBuf, mags>>

\* ResponseCurveComponent::timerCallback of the editor with the analyzer
\* button: if (shouldShowFFTAnalysis) both path producers process; then the
\* compare-and-set of parametersChanged and updateChain; repaint().
analyzerTimerCallback ==
    /\ pcM = Idle
    /\ IF shouldShowFFTAnalysis
       THEN pathProducersProcess
       ELSE UNCHANGED <<pathProducer, sampleFifo>>
    /\ consumeParametersChanged
    /\ UNCHANGED <<pcM, apvts, sampleRate, notifyPending, leftChain, rightChain,
                   audioVars, cutVars, fifoVars, tickVars, snapshotVars, pathVars,
                   enableVars, filterMem, inBuf, outBuf, mags>>

NextAnalyzer ==
    \/ SetParameterAudio
    \/ parameterValueChanged
    \/ processBlockAudio
    \/ toggleAnalysisEnablement
    \/ analyzerTimerCallback

SpecAnalyzer == InitAudioProgram /\ [][NextAnalyzer]_vars

\* The blocks queued for the analysis of a channel in run A, oldest first.
Queued(ch) == Readable(sampleFifo["A"][ch].audioBufferFifo)

\* The window after the blocks of q were shifted into it, first block first.
RECURSIVE shiftAll(_, _)
shiftAll(monoBuffer, q) ==
    IF q = <<>> THEN monoBuffer
    ELSE shiftAll(shiftIn(monoBuffer, Head(q)), Tail(q))

\* A step of the message thread that is no toggle: the parameters, the
\* enable flag and everything the audio callback writes stay as they are.
MessageStep ==
    UNCHANGED <<apvts, notifyPending, enableVars, leftChain, rightChain, audioVars,
                filterMem, inBuf, outBuf>>

\* A step of the audio callback: it leaves what the message thread owns and
\* takes no block out of a fifo.  (A tick that changes none of these does
\* nothing at all; a callback that changes nothing found the fifos full.)
AudioStep ==
    /\ UNCHANGED <<paramVars, enableVars, monoChain, messageVars, pathProducer>>
    /\ vars' # vars
    /\ \A ch \in Channels : Len(Queued(ch)') >= Len(Queued(ch))

\* C29: while the analysis is disabled a tick leaves the sample fifos and
\* the path producers (window, FFT-frame fifo, path fifo, retained path) of
\* both channels as they are; when parametersChanged is set the tick can
\* run and clears it, and a tick that ran left the flag clear and, if it
\* was set, monoChain rebuilt from the current parameters.  An
\* audio callback queues its filtered block behind the queued ones whatever
\* the flag says, unless the fifo is full.  The tick after re-enabling shifts
\* the queued blocks into the window oldest first and leaves none queued.
C29_DisabledTickOnlyRebuilds ==
    /\ [](~shouldShowFFTAnalysis /\ parametersChanged
            => ENABLED (analyzerTimerCallback /\ ~parametersChanged'))
    /\ [][~shouldShowFFTAnalysis /\ MessageStep /\ analyzerTimerCallback
            => /\ sampleFifo' = sampleFifo
               /\ pathProducer' = pathProducer
               /\ ~parametersChanged'
               /\ monoChain' = IF parametersChanged
                               THEN updateChain(getChainSettings(apvts), sampleRate,
                                                monoChain)
                               ELSE monoChain]_vars
    /\ [][AudioStep
            => \A ch \in Channels :
                   Queued(ch)' = IF Len(Queued(ch)) < FifoCapacity
                                 THEN Append(Queued(ch), outBuf'["A"][ch])
                                 ELSE Queued(ch)]_vars
    /\ [][shouldShowFFTAnalysis /\ MessageStep /\ analyzerTimerCallback
            => \A ch \in Channels :
                   /\ pathProducer'[ch].monoBuffer =
                          shiftAll(pathProducer[ch].monoBuffer, Queued(ch))
                   /\ Queued(ch)' = <<>>]_vars

\* The analysis is disabled, the fifo of the left channel is full of blocks
\* that differ, nothing was ever drained, and a parameter change was consumed
\* and monoChain rebuilt from it.
C29_Witness ==
    /\ ~shouldShowFFTAnalysis
    /\ Len(Queued("L")) = FifoCapacity
    /\ Queued("L")[1] # Queued("L")[2]
    /\ pathProducer["L"].monoBuffer = NewPathProducer.monoBuffer
    /\ ~parametersChanged
    /\ ~notifyPending
    /\ apvts # createParameterLayout
    /\ csM = getChainSettings(apvts)
    /\ monoChain = updateChain(csM, sampleRate, monoChain)

(***************************************************************************)
(* updateCutFilter called with any slope value (SpecCutCall)               *)
(*                                                                         *)
(* The function is called on a CutFilter that earlier calls have written,  *)
(* with a design of at least as many coefficient sets as the slope needs   *)
(* and with a slope that is one of the four enumerators or another value   *)
(* of the type.  cutSlope records the slope of the last call.              *)
(***************************************************************************)

\* Values of type Slope that are no enumerator.
OtherSlopeValues == {-2, 4}

\* The case labels of the switch, in the order of the text; the case of
\* label Slope_k calls update<k>.
SwitchCases == <<Slope_48, Slope_36, Slope_24, Slope_12>>

\* The update<Index> calls of the switch, in the order they are executed:
\* from the case whose label equals the slope to the end of the switch, no
\* case ending with a break; none when no label equals the slope.
casesEntered(slope) ==
    IF \E k \in DOMAIN SwitchCases : SwitchCases[k] = slope
    THEN LET k == CHOOSE j \in DOMAIN SwitchCases : SwitchCases[j] = slope
         IN  SubSeq(SwitchCases, k, Len(SwitchCases))
    ELSE <<>>

\* The calls update<calls[1]>, update<calls[2]>, ... executed one after the other.
RECURSIVE applyUpdates(_, _, _)
applyUpdates(chain, cutCoeff, calls) ==
    IF calls = <<>> THEN chain
    ELSE applyUpdates(update(Head(calls), chain, cutCoeff), cutCoeff, Tail(calls))

\* The coefficient arrays a call is handed: low-cut and high-cut designs of
\* the four orders.
CutDesigns ==
    {makeLowCutFilter(CutSettings(f, d), 48000) : f \in LowCutFreqs, d \in Slopes}
        \cup {makeHighCutFilter(CutSettings(f, d), 48000) : f \in HighCutFreqs,
                                                            d \in Slopes}

\* updateCutFilter(chain, cutCoeff, slope)
CutCall ==
    \E s \in Slopes \cup OtherSlopeValues, cutCoeff \in CutDesigns :
        /\ s \in Slopes => s \in DOMAIN cutCoeff
        /\ cutChain' = updateCutFilter(cutChain, cutCoeff, s)
        /\ cutPrior' = cutChain.byp
        /\ cutSlope' = s
        /\ UNCHANGED <<chainVars, audioVars, messageVars, paramVars, analyzerVars>>

NextCutCall == CutCall

SpecCutCall == InitCut /\ [][NextCutCall]_vars

\* The design slot 0 was written from.
DesignOf(coef) ==
    designIIRHighOrderButterworthMethod(coef.kind, coef.freq, coef.rate, coef.order)

\* C30: a call with an enumerator s leaves slots 0..s holding the sets
\* 0..s of the array it was handed and slots s+1..3 holding the
\* coefficients they held before; the switch calls update<s>, ...,
\* update<0>, each once and in this order, and updateCutFilter is the four
\* setBypassed(true) followed by these calls; a call with a value that is no
\* enumerator calls no update, keeps the coefficients of all four slots and
\* leaves all four bypassed.
C30_SlopeWritesSlotsUpToItself ==
    /\ [][cutSlope' \in Slopes
            => LET cutCoeff == DesignOf(cutChain'.coef[0])
               IN  /\ cutCoeff \in CutDesigns
                   /\ \A i \in 0..cutSlope' : cutChain'.coef[i] = cutCoeff[i]
                   /\ \A i \in (cutSlope' + 1)..3 :
                          cutChain'.coef[i] = cutChain.coef[i]]_vars
    /\ [][cutSlope' \in OtherSlopeValues
            => /\ cutChain'.coef = cutChain.coef
               /\ BypassedSlots(cutChain') = Slots]_vars
    /\ [](\A s \in Slopes : casesEntered(s) = [k \in 1..(s + 1) |-> s + 1 - k])
    /\ [](\A s \in OtherSlopeValues : casesEntered(s) = <<>>)
    /\ [](\A s \in Slopes \cup OtherSlopeValues, cutCoeff \in CutDesigns :
            (s \in Slopes => s \in DOMAIN cutCoeff)
                => updateCutFilter(cutChain, cutCoeff, s)
                       = applyUpdates(bypassAllSlots(cutChain), cutCoeff,
                                      casesEntered(s)))

\* A call with Slope_48 filled the four slots from a high-cut design; then a
\* call with Slope_24 and an order-6 low-cut design rewrote slots 0 and 1 and
\* left slots 2 and 3; then a call with a value that is no enumerator left
\* the coefficients and bypassed the four slots.
C30_Witness ==
    /\ cutSlope \in OtherSlopeValues
    /\ BypassedSlots(cutChain) = Slots
    /\ cutPrior = SlotFlagsFor(Slope_24)
    /\ \A i \in 0..1 : cutChain.coef[i] = Coef("highpass", 500, 0, 0, 6, i, 48000)
    /\ \A i \in 2..3 : cutChain.coef[i] = Coef("lowpass", 20000, 0, 0, 8, i, 48000)

====
